---- MODULE Spec2Model ----
(***************************************************************************)
(* mini-claw: the per-chat lock table (pi-runner.ts acquireLock), the Pi   *)
(* process runner (runPi / runPiWithStreaming), the /new command and the   *)
(* session:load callback (switchSession), on Node's event loop.            *)
(*                                                                         *)
(* Scheduling model: one JavaScript job runs at a time.  A macrotask (an   *)
(* incoming call, an I/O completion, a child-process event, a timer) runs  *)
(* only when the microtask queue mq is empty; the continuations of awaited *)
(* promises are microtasks and run in FIFO order before the next macrotask.*)
(* An I/O completion and the continuation it resumes are one action, since *)
(* that continuation is then the only job in the queue.                    *)
(*                                                                         *)
(* Further parts, each with its own variables and specification: one       *)
(* streaming run in detail (StreamSpec), the message:text handler around   *)
(* its run (TurnSpec), extractImagesFromSession (ExtractSpec), the rate    *)
(* limiter (RateSpec) and createBot's access control (AccessSpec).         *)
(***************************************************************************)
EXTENDS Integers, Sequences, FiniteSets, TLC

\* Bounds of the model.
NOps == 2
NClients == 3
NKeys == 2
MaxReleases == 2
MaxTime == 7        \* the clock runs from 0 to MaxTime seconds
MaxChunks == 2      \* stdout data events of one run
MaxAppends == 1     \* transcript lines one Pi process appends
MaxLen == 3         \* lines of a transcript file given to extractImagesFromSession
MaxUser == 2        \* Telegram user ids are 0..MaxUser
\* config.rateLimitCooldownMs of the configuration under study, in clock units.
Cooldown == 3

\* The activity interval (5000 ms) and its quiet period, in seconds.
IntervalS == 5
QuietS == 5
\* config.piTimeoutMs of the configuration under study, in seconds.
PiTimeoutS == 6

\* Call slots, numbered in call order: the program's handlers use the first
\* NOps, direct users of the exported acquireLock the first NClients.
Ops == 1..(IF NOps > NClients THEN NOps ELSE NClients)
Keys == 1..NKeys          \* chat ids

\* Session-directory file names: <<k, 0>> is telegram-<k>.jsonl and
\* <<k, n>>, n > 0, is telegram-<k>-<timestamp n>.jsonl.
getSessionPath(k) == <<k, 0>>
ArchiveName(k, n) == <<k, n>>
FileNames == Keys \X (0..(NOps + 1))
NoFile == <<0, 0>>

VARIABLES
    pc,         \* pc[c]: where call c stands
    kind,       \* kind[c]: "run" | "new" | "switch" | "lock"
    key,        \* key[c]: chat id of call c
    target,     \* target[c]: switchSession's targetFilename
    cur,        \* cur[c]: switchSession's currentFilename
    locks,      \* locks[k]: 0 = no entry, else the call whose promise is the entry
    waitq,      \* waitq[p]: calls awaiting the promise created by call p, in order
    settled,    \* calls whose lock promise has been resolved
    mq,         \* microtask queue: calls whose continuation is ready to run
    proc,       \* proc[c]: the child process spawned by run c
    timer,      \* timer[c]: the setTimeout of run c
    result,     \* result[c]: what the run's result promise was resolved with
    firstEv,    \* history: the first of close/error/timeout that occurred for run c
    outcome,    \* outcome[c]: how the call ended
    releases,   \* history: how many times c's release handle has been invoked
    waited,     \* history: c had to wait in acquireLock
    files,      \* files[f]: 0 = absent, else the id of the conversation stored in f
    activeSessions, \* activeSessions[k]: NoFile = no entry, else a file name
    nextStamp   \* the next archive timestamp

\* One runPiWithStreaming call in detail, from startTime on.
VARIABLES
    now,            \* Date.now(), in seconds
    sphase,         \* "idle" | "mkdir" | "spawned" | "returned" | "threw"
    startTime,      \* startTime of the run
    sproc,          \* the child: "none" | "alive" | "failed" | "termed" | "closed" | "errored"
    exitCode,       \* the code of the close event (NoCode before it)
    stdout,         \* the run's stdout string, a sequence of text tokens
    stderr,         \* the run's stderr string
    lineBuffer,     \* the run's lineBuffer
    arrived,        \* history: the stdout chunks (bytes) in arrival order
    handed,         \* history: the lines passed to processLine, in order
    lastActivity,   \* the run's lastActivity (NoActivity = null)
    activityInterval, \* "none" | "active" | "cleared"
    intervalDue,    \* when the interval callback is next due
    timeoutDue,     \* when the setTimeout callback is due (-1 = not set)
    stimer,         \* "none" | "pending" | "fired"
    sresult,        \* what the result promise was resolved with (NoResult before)
    resolvedBy,     \* history: the handler whose resolve determined the result
    emitted,        \* history: number of onActivity invocations
    lastEmit        \* history: the last ActivityUpdate passed to onActivity

streamv == <<now, sphase, startTime, sproc, exitCode, stdout, stderr, lineBuffer,
             arrived, handed, lastActivity, activityInterval, intervalDue, timeoutDue,
             stimer, sresult, resolvedBy, emitted, lastEmit>>

\* The message:text handler around its run: the line-count watermark and the
\* images sent afterwards.
VARIABLES
    tpc,        \* tpc[c]: "none" | "marked" | "sent" | "failed"
    mark,       \* mark[c]: sessionLinesBefore of turn c
    transcript, \* transcript[k]: the lines of chat k's transcript, each line an image record
                \* named by the run that appended it (0: an earlier life)
    sent        \* sent[c]: the transcript lines whose image turn c sent

turnv == <<tpc, mark, transcript, sent>>

\* One call of extractImagesFromSession on a transcript file.
VARIABLES
    xExists,    \* the transcript file exists
    xFile,      \* the file's lines, each one of LineKinds
    xMark,      \* the last getSessionLineCount taken (NoMark: none)
    xMarkLen,   \* history: the number of lines the file held at that time
    xContent,   \* what readFile returned to the call
    xAfter,     \* afterLine (NoMark: no call since the count was taken)
    xImages,    \* the result: the 0-based file line of each image returned
    xOutcome    \* how the last call ended: "none" | "returned" | "threw"

extractv == <<xExists, xFile, xMark, xMarkLen, xContent, xAfter, xImages, xOutcome>>

\* The rate limiter (rate-limiter.ts).
VARIABLES
    rateLimits, \* rateLimits[k]: lastRequest of chat k (NoEntry = no entry)
    allowedAt,  \* history: the times of the allowed requests of chat k, in order
    rlast       \* history: the last call and its RateLimitResult

ratev == <<rateLimits, allowedAt, rlast>>

\* The access-control middleware of createBot (bot.ts).
VARIABLES
    created,        \* createBot has run
    allowedUsers,   \* config.allowedUsers
    middleware,     \* the access middleware is installed
    reached,        \* history: the senders whose update reached a handler
    denied,         \* history: the senders answered "not authorized"
    lastUpdate      \* history: the last update and where it ended

accessv == <<created, allowedUsers, middleware, reached, denied, lastUpdate>>

\* The argument list of the last spawn of pi by runPiWithStreaming.
VARIABLES
    aChat,      \* chatId
    aLevel,     \* config.thinkingLevel
    aOptions,   \* options: whether given, and its imagePaths
    aPrompt,    \* prompt
    args        \* the array passed to spawn (<<>>: no spawn yet)

argsv == <<aChat, aLevel, aOptions, aPrompt, args>>

\* main() of index.ts and its checkPiAuth call.
VARIABLES
    mainpc,     \* "start" | "auth" (awaiting checkPiAuth) | "exited"
    authProc,   \* the `pi --version` child: "none" | "alive" | "failed" | "errored" | "closed"
    authCode,   \* the code of its close event (NoCode before it)
    authResult, \* checkPiAuth's promise: "pending" | "true" | "false" | "rejected"
    authBy      \* history: the event that settled it: "none" | "close" | "error"

mainv == <<mainpc, authProc, authCode, authResult, authBy>>

\* The last call of categorizeFiles.
VARIABLES
    cIn,        \* filePaths
    cOut        \* the DetectedFile list returned

catv == <<cIn, cOut>>

\* The workspace directory, its snapshot and the last detectNewFiles call.
VARIABLES
    wsOk,       \* the workspace directory exists and can be read
    wsFiles,    \* wsFiles[p]: the entry named p: its kind and its mtime
    before,     \* the snapshot: before[p] is p's mtime (NoMtime: p is not in the map)
    dLast       \* history: the last detectNewFiles call: what it saw and returned

detectv == <<wsOk, wsFiles, before, dLast>>

\* One chat's session files under switchSession calls made one after another
VARIABLES
    wFiles,     \* wFiles[f]: the turns in session file f, <<>> = no such file
    wActive,    \* activeSessions[chatId]: NoName = no entry, else a file name
    wStamp,     \* the timestamp the next archive name carries
    wTurns,     \* the number of turns written so far
    wLast       \* history: the last switchSession call, the state it found

swv == <<wFiles, wActive, wStamp, wTurns, wLast>>

\* The session directory under cleanupOldSessions
VARIABLES
    sessDir,    \* the session files of all chats, most recently modified first
    cLast       \* history: the last cleanupOldSessions call, the state it found

cleanv == <<sessDir, cLast>>

\* The per-chat workspaces (workspace.ts)
VARIABLES
    wkState,        \* state: chat id -> path, NoPath = no entry
    wkLoaded,       \* loaded
    wkFile,         \* what workspaces.json holds
    wkFileExists,   \* workspaces.json exists
    wkKind,         \* wkKind[p]: "dir" | "file" | "none", what is at path p
    wkLast          \* history: the last getWorkspace or setWorkspace call

workv == <<wkState, wkLoaded, wkFile, wkFileExists, wkKind, wkLast>>

\* splitMessage (bot.ts)
VARIABLES
    mText,      \* text, a list of characters
    mSplit      \* history: what the last splitMessage call did

splitv == <<mText, mSplit>>

\* detectActivity on whole lines (pi-runner.ts)
VARIABLES
    kLine,      \* line, as the list of its pieces
    kLast       \* history: what the last detectActivity call on the line found

classifyv == <<kLine, kLast>>

auxv == <<streamv, turnv, extractv, ratev, accessv, argsv, mainv, catv, detectv, swv, cleanv, workv, splitv, classifyv>>

opv == <<kind, key, target, cur>>
lockv == <<locks, waitq, settled, releases>>
procv == <<proc, timer, result, firstEv>>
fsv == <<files, activeSessions, nextStamp>>
runv == <<pc, opv, lockv, mq, procv, outcome, waited, fsv>>
vars == <<pc, opv, lockv, mq, procv, outcome, waited, fsv, auxv>>

\* What the steps of a streaming run leave alone.
streamOthers == <<runv, turnv, extractv, ratev, accessv, argsv, mainv, catv, detectv, swv, cleanv, workv, splitv, classifyv>>
\* What the steps of a message turn leave alone.
turnOthers == <<streamv, extractv, ratev, accessv, argsv, mainv, catv, detectv, swv, cleanv, workv, splitv, classifyv>>
\* What a call of extractImagesFromSession leaves alone.
extractOthers == <<runv, streamv, turnv, ratev, accessv, argsv, mainv, catv, detectv, swv, cleanv, workv, splitv, classifyv>>
\* What a call of checkRateLimit leaves alone.
rateOthers == <<runv, streamv, turnv, extractv, accessv, argsv, mainv, catv, detectv, swv, cleanv, workv, splitv, classifyv>>
\* What the dispatch of an update leaves alone.
accessOthers == <<runv, streamv, turnv, extractv, ratev, argsv, mainv, catv, detectv, swv, cleanv, workv, splitv, classifyv>>
\* What the steps on argsv leave alone.
argsOthers == <<runv, streamv, turnv, extractv, ratev, accessv, mainv, catv, detectv, swv, cleanv, workv, splitv, classifyv>>
\* What the steps on mainv leave alone.
mainOthers == <<runv, streamv, turnv, extractv, ratev, accessv, argsv, catv, detectv, swv, cleanv, workv, splitv, classifyv>>
\* What the steps on catv leave alone.
catOthers == <<runv, streamv, turnv, extractv, ratev, accessv, argsv, mainv, detectv, swv, cleanv, workv, splitv, classifyv>>
\* What the steps on detectv leave alone.
detectOthers == <<runv, streamv, turnv, extractv, ratev, accessv, argsv, mainv, catv, swv, cleanv, workv, splitv, classifyv>>
\* What the steps on swv leave alone.
swOthers == <<runv, streamv, turnv, extractv, ratev, accessv, argsv, mainv, catv, detectv, cleanv, workv, splitv, classifyv>>
\* What the steps on cleanv leave alone.
cleanOthers == <<runv, streamv, turnv, extractv, ratev, accessv, argsv, mainv, catv, detectv, swv, workv, splitv, classifyv>>
\* What the steps on workv leave alone.
workOthers == <<runv, streamv, turnv, extractv, ratev, accessv, argsv, mainv, catv, detectv, swv, cleanv, splitv, classifyv>>
\* What the steps on splitv leave alone.
splitOthers == <<runv, streamv, turnv, extractv, ratev, accessv, argsv, mainv, catv, detectv, swv, cleanv, workv, classifyv>>
\* What the steps on classifyv leave alone.
classifyOthers == <<runv, streamv, turnv, extractv, ratev, accessv, argsv, mainv, catv, detectv, swv, cleanv, workv, splitv>>

MaxStamp == 4
MaxTurns == 4

\* The chat's session files: 0 is telegram-<chatId>.jsonl, n > 0 is
\* telegram-<chatId>-<timestamp n>.jsonl.
WNames == 0..MaxStamp
NoName == -1
NoSwitch == [outcome |-> "none"]

NoCleanup == [keepCount |-> -1]

\* Paths are lists of names: <<>> is "/", <<"h">> is the home directory.
homedir == <<"h">>
NoPath == <<"">>
WsPaths == {<<"h", "a">>, <<"w">>, <<"w", "a">>}
NoState == [k \in Keys |-> NoPath]
NoCall == [op |-> "none"]

NoSplit == [ended |-> FALSE, chunks |-> <<>>, cuts |-> <<>>]

NoClass == [called |-> FALSE]

NoCode == -2
\* Map.get gives undefined.
NoMtime == -1
\* The names a workspace entry can have.
DPaths == {"/w/a", "/w/b"}
\* No entry of that name.
NoEntryAt == [kind |-> "none", mtime |-> 0]
NoDetect == [called |-> FALSE, ok |-> TRUE, files |-> [p \in DPaths |-> NoEntryAt],
             before |-> [p \in DPaths |-> NoMtime], new |-> {}]
\* runPiWithStreaming is called without options.
NoOptions == [given |-> FALSE, imagePaths |-> <<>>]
NoEntry == -1
\* No line count was taken.
NoMark == -1
NoCheck == [chatId |-> 0, at |-> -1, allowed |-> FALSE, retryAfterMs |-> 0]
\* ctx.from is undefined.
NoSender == -1
NoUpdate == [from |-> NoSender, kind |-> "none", ended |-> "none"]
NoActivity == [type |-> "none", detail |-> "", elapsed |-> -1]
NoResult == [output |-> <<"(unresolved)">>, error |-> <<"(unresolved)">>]
\* RunResult.error is absent.
Absent == <<"(absent)">>

\* No streaming run has been called.
StreamIdle ==
    /\ now = 0 /\ sphase = "idle" /\ startTime = 0
    /\ sproc = "none" /\ exitCode = NoCode
    /\ stdout = <<>> /\ stderr = <<>> /\ lineBuffer = <<>> /\ arrived = <<>>
    /\ handed = <<>>
    /\ lastActivity = NoActivity
    /\ activityInterval = "none" /\ intervalDue = -1
    /\ timeoutDue = -1 /\ stimer = "none"
    /\ sresult = NoResult /\ resolvedBy = "none"
    /\ emitted = 0 /\ lastEmit = NoActivity

\* A fresh process with an empty lock table; the session directory holds the
\* transcript and one archived session of chat 1 from an earlier life of the
\* bot, and nothing of the other chats.
InitFiles ==
    [f \in FileNames |-> IF f = ArchiveName(1, 1) THEN NOps + 1
                         ELSE IF f = getSessionPath(1) THEN NOps + 2 ELSE 0]

Init ==
    /\ pc = [c \in Ops |-> "idle"]
    /\ kind = [c \in Ops |-> "none"]
    /\ key = [c \in Ops |-> 1]
    /\ target = [c \in Ops |-> NoFile]
    /\ cur = [c \in Ops |-> NoFile]
    /\ locks = [k \in Keys |-> 0]
    /\ waitq = [c \in Ops |-> <<>>]
    /\ settled = {}
    /\ mq = <<>>
    /\ proc = [c \in Ops |-> "none"]
    /\ timer = [c \in Ops |-> "none"]
    /\ result = [c \in Ops |-> "none"]
    /\ firstEv = [c \in Ops |-> "none"]
    /\ outcome = [c \in Ops |-> "none"]
    /\ releases = [c \in Ops |-> 0]
    /\ waited = [c \in Ops |-> FALSE]
    /\ files = InitFiles
    /\ activeSessions = [k \in Keys |-> NoFile]
    /\ nextStamp = 2
    /\ StreamIdle
    /\ tpc = [c \in Ops |-> "none"]
    /\ mark = [c \in Ops |-> 0]
    /\ transcript = [k \in Keys |-> IF InitFiles[getSessionPath(k)] # 0 THEN <<0>> ELSE <<>>]
    /\ sent = [c \in Ops |-> {}]
    /\ xExists = FALSE /\ xFile = <<>> /\ xMark = NoMark /\ xMarkLen = 0
    /\ xContent = <<>> /\ xAfter = 0 /\ xImages = <<>> /\ xOutcome = "none"
    /\ rateLimits = [k \in Keys |-> NoEntry]
    /\ allowedAt = [k \in Keys |-> <<>>]
    /\ rlast = NoCheck
    /\ created = FALSE /\ allowedUsers = {} /\ middleware = FALSE
    /\ reached = {} /\ denied = {} /\ lastUpdate = NoUpdate
    /\ aChat = 1 /\ aLevel = "low" /\ aOptions = NoOptions /\ aPrompt = <<>> /\ args = <<>>
    /\ mainpc = "start" /\ authProc = "none" /\ authCode = NoCode /\ authResult = "pending" /\ authBy = "none"
    /\ cIn = <<>> /\ cOut = <<>>
    /\ wsOk = TRUE /\ wsFiles = [p \in DPaths |-> NoEntryAt] /\ before = [p \in DPaths |-> NoMtime] /\ dLast = NoDetect
    /\ wFiles = [f \in WNames |-> IF f <= 1 THEN <<f + 1>> ELSE <<>>] /\ wActive = NoName /\ wStamp = 2 /\ wTurns = 2 /\ wLast = NoSwitch
    /\ sessDir = <<>> /\ cLast = NoCleanup
    /\ wkState = NoState /\ wkLoaded = FALSE /\ wkFile = NoState /\ wkFileExists = FALSE /\ wkKind = [p \in WsPaths |-> IF p = <<"w">> THEN "dir" ELSE "none"] /\ wkLast = NoCall
    /\ mText = <<>> /\ mSplit = NoSplit
    /\ kLine = <<>> /\ kLast = NoClass

----------------------------------------------------------------------------
\* The lock table.

\* One lock for all chats: the table is tested for any entry, not for k's.
acquireLock_global(c, k, q) ==
    IF \A j \in Keys : locks[j] = 0
    THEN /\ locks' = [locks EXCEPT ![k] = c]
         /\ pc' = [pc EXCEPT ![c] = "acquired"]
         /\ mq' = Append(q, c)
         /\ UNCHANGED <<waitq, waited>>
    ELSE /\ pc' = [pc EXCEPT ![c] = "waiting"]
         /\ waited' = [waited EXCEPT ![c] = TRUE]
         /\ LET p == locks[CHOOSE j \in Keys : locks[j] # 0]
            IN  IF p \in settled
                THEN mq' = Append(q, c) /\ waitq' = waitq
                ELSE mq' = q /\ waitq' = [waitq EXCEPT ![p] = Append(@, c)]
         /\ UNCHANGED locks

\* acquireLock from its loop test on, entered by call c with the microtask
\* queue q: no entry -> install the promise and return (the caller's await
\* continuation is queued); an entry -> await its promise.
acquireLock(c, k, q) ==
    IF locks[k] = 0
    THEN /\ locks' = [locks EXCEPT ![k] = c]
         /\ pc' = [pc EXCEPT ![c] = "acquired"]
         /\ mq' = Append(q, c)
         /\ UNCHANGED <<waitq, waited>>
    ELSE /\ pc' = [pc EXCEPT ![c] = "waiting"]
         /\ waited' = [waited EXCEPT ![c] = TRUE]
         /\ IF locks[k] \in settled
            THEN mq' = Append(q, c) /\ waitq' = waitq
            ELSE mq' = q /\ waitq' = [waitq EXCEPT ![locks[k]] = Append(@, c)]
         /\ UNCHANGED locks

\* The handle deletes the entry and forgets to resolve the promise.
ReleaseHandle_noResolve(c, q) ==
    /\ locks' = [locks EXCEPT ![key[c]] = 0]
    /\ releases' = [releases EXCEPT ![c] = @ + 1]
    /\ mq' = q
    /\ UNCHANGED <<waitq, settled>>

\* The handle resolves the promise and leaves the entry in the table.
ReleaseHandle_keepEntry(c, q) ==
    /\ UNCHANGED locks
    /\ releases' = [releases EXCEPT ![c] = @ + 1]
    /\ IF c \in settled
       THEN mq' = q /\ UNCHANGED <<waitq, settled>>
       ELSE /\ mq' = q \o waitq[c]
            /\ waitq' = [waitq EXCEPT ![c] = <<>>]
            /\ settled' = settled \cup {c}

\* The release handle of call c, invoked with the microtask queue q:
\* locks.delete(chatId), then resolve c's promise, which queues its waiters.
ReleaseHandle(c, q) ==
    /\ locks' = [locks EXCEPT ![key[c]] = 0]
    /\ releases' = [releases EXCEPT ![c] = @ + 1]
    /\ IF c \in settled
       THEN mq' = q /\ UNCHANGED <<waitq, settled>>
       ELSE /\ mq' = q \o waitq[c]
            /\ waitq' = [waitq EXCEPT ![c] = <<>>]
            /\ settled' = settled \cup {c}

\* A call is issued by the first unused call slot, of n.
NextCall(c, n) == c <= n /\ pc[c] = "idle" /\ \A d \in Ops : d < c => pc[d] # "idle"

\* A waiter resumes after the awaited promise resolved: with `if` in place of
\* `while` it would take the lock without testing the table again.
AcquireResume_noRecheck(c) ==
    /\ mq # <<>> /\ Head(mq) = c /\ pc[c] = "waiting"
    /\ locks' = [locks EXCEPT ![key[c]] = c]
    /\ pc' = [pc EXCEPT ![c] = "acquired"]
    /\ mq' = Append(Tail(mq), c)
    /\ UNCHANGED <<opv, waitq, settled, releases, procv, outcome, waited, fsv>>
    /\ UNCHANGED auxv

\* A waiter resumes after the awaited promise resolved and runs the loop test again.
AcquireResume(c) ==
    /\ mq # <<>> /\ Head(mq) = c /\ pc[c] = "waiting"
    /\ acquireLock(c, key[c], Tail(mq))
    /\ UNCHANGED <<opv, settled, releases, procv, outcome, fsv>>
    /\ UNCHANGED auxv

----------------------------------------------------------------------------
\* runPi / runPiWithStreaming.

\* runPi(chatId = k) is called: acquireLock runs up to its first await.
CallRun(c, k) ==
    /\ NextCall(c, NOps)
    /\ kind' = [kind EXCEPT ![c] = "run"]
    /\ key' = [key EXCEPT ![c] = k]
    /\ acquireLock(c, k, mq)
    /\ UNCHANGED <<target, cur, settled, releases, procv, outcome, fsv>>
    /\ UNCHANGED auxv

\* `await acquireLock` returns the handle; the run starts mkdir(sessionDir).
RunAfterLock(c) ==
    /\ mq # <<>> /\ Head(mq) = c /\ pc[c] = "acquired" /\ kind[c] = "run"
    /\ pc' = [pc EXCEPT ![c] = "mkdir"]
    /\ mq' = Tail(mq)
    /\ UNCHANGED <<opv, lockv, procv, outcome, waited, fsv>>
    /\ UNCHANGED auxv

\* mkdir rejects and the release is missing from the exception path.
MkdirThrows_noFinally(c) ==
    /\ mq = <<>> /\ pc[c] = "mkdir"
    /\ pc' = [pc EXCEPT ![c] = "done"]
    /\ outcome' = [outcome EXCEPT ![c] = "threw"]
    /\ UNCHANGED <<opv, lockv, mq, procv, waited, fsv>>
    /\ UNCHANGED auxv

\* mkdir rejects: the await throws, `finally` releases, the run rejects.
MkdirThrows(c) ==
    /\ mq = <<>> /\ pc[c] = "mkdir"
    /\ ReleaseHandle(c, mq)
    /\ pc' = [pc EXCEPT ![c] = "done"]
    /\ outcome' = [outcome EXCEPT ![c] = "threw"]
    /\ UNCHANGED <<opv, procv, waited, fsv>>
    /\ UNCHANGED auxv

\* `return new Promise(...)` without `await`: `finally` releases the lock as
\* soon as the process is spawned.
Spawn_noAwait(c, how) ==
    /\ mq = <<>> /\ pc[c] = "mkdir"
    /\ proc' = [proc EXCEPT ![c] = how]
    /\ timer' = [timer EXCEPT ![c] = "pending"]
    /\ pc' = [pc EXCEPT ![c] = "running"]
    /\ ReleaseHandle(c, mq)
    /\ UNCHANGED <<opv, result, firstEv, outcome, waited, fsv>>
    /\ UNCHANGED auxv

\* mkdir succeeds and spawn returns a child process, started (how = "alive")
\* or failing to start (how = "failed": its error event is still to come);
\* the handlers and the timeout timer are installed.
Spawn(c, how) ==
    /\ mq = <<>> /\ pc[c] = "mkdir"
    /\ proc' = [proc EXCEPT ![c] = how]
    /\ timer' = [timer EXCEPT ![c] = "pending"]
    /\ pc' = [pc EXCEPT ![c] = "running"]
    /\ UNCHANGED <<opv, lockv, mq, result, firstEv, outcome, waited, fsv>>
    /\ UNCHANGED auxv

\* mkdir succeeds and spawn itself throws inside the promise executor: the
\* promise rejects, the await throws, `finally` releases, the run rejects.
SpawnThrows(c) ==
    /\ mq = <<>> /\ pc[c] = "mkdir"
    /\ proc' = [proc EXCEPT ![c] = "threw"]
    /\ ReleaseHandle(c, mq)
    /\ pc' = [pc EXCEPT ![c] = "done"]
    /\ outcome' = [outcome EXCEPT ![c] = "threw"]
    /\ UNCHANGED <<opv, timer, result, firstEv, waited, fsv>>
    /\ UNCHANGED auxv

\* A promise keeps a later resolution.
resolve_overwrite(c, r) == r

\* resolve(r) on run c's result promise: the first resolution stays.
resolve(c, r) == IF result[c] = "none" THEN r ELSE result[c]

\* An event handler of run c calls resolve(r); the first call wakes the run.
Resolved(c, r) ==
    /\ result' = [result EXCEPT ![c] = resolve(c, r)]
    /\ firstEv' = [firstEv EXCEPT ![c] = IF @ = "none" THEN r ELSE @]
    /\ IF result[c] = "none"
       THEN pc' = [pc EXCEPT ![c] = "resolved"] /\ mq' = Append(mq, c)
       ELSE UNCHANGED <<pc, mq>>

\* The child's close event.
ProcClose(c) ==
    /\ mq = <<>> /\ proc[c] \in {"alive", "termed", "errored"}
    /\ proc' = [proc EXCEPT ![c] = "closed"]
    /\ Resolved(c, "close")
    /\ UNCHANGED <<opv, lockv, timer, outcome, waited, fsv>>
    /\ UNCHANGED auxv

\* The child's error event (the process could not be started).
ProcError(c) ==
    /\ mq = <<>> /\ proc[c] = "failed"
    /\ proc' = [proc EXCEPT ![c] = "errored"]
    /\ Resolved(c, "error")
    /\ UNCHANGED <<opv, lockv, timer, outcome, waited, fsv>>
    /\ UNCHANGED auxv

\* The timeout callback kills the process and does not resolve.
Timeout_killOnly(c) ==
    /\ mq = <<>> /\ timer[c] = "pending"
    /\ timer' = [timer EXCEPT ![c] = "fired"]
    /\ proc' = [proc EXCEPT ![c] = IF @ = "alive" THEN "termed" ELSE @]
    /\ UNCHANGED <<pc, opv, lockv, mq, result, firstEv, outcome, waited, fsv>>
    /\ UNCHANGED auxv

\* The setTimeout callback: proc.kill("SIGTERM"), then resolve.  The timer is
\* never cleared, so it fires whether or not the run has resolved.
Timeout(c) ==
    /\ mq = <<>> /\ timer[c] = "pending"
    /\ timer' = [timer EXCEPT ![c] = "fired"]
    /\ proc' = [proc EXCEPT ![c] = IF @ = "alive" THEN "termed" ELSE @]
    /\ Resolved(c, "timeout")
    /\ UNCHANGED <<opv, lockv, outcome, waited, fsv>>
    /\ UNCHANGED auxv

\* The run's `await new Promise` returns: `finally` releases, the result is returned.
RunFinally(c) ==
    /\ mq # <<>> /\ Head(mq) = c /\ pc[c] = "resolved"
    /\ ReleaseHandle(c, Tail(mq))
    /\ pc' = [pc EXCEPT ![c] = "done"]
    /\ outcome' = [outcome EXCEPT ![c] = "returned"]
    /\ UNCHANGED <<opv, procv, waited, fsv>>
    /\ UNCHANGED auxv

\* The Pi process of run c writes its --session file, creating it when absent.
ProcWrite(c) ==
    /\ mq = <<>> /\ proc[c] \in {"alive", "termed"}
    /\ files[getSessionPath(key[c])] = 0
    /\ files' = [files EXCEPT ![getSessionPath(key[c])] = c]
    /\ UNCHANGED <<pc, opv, lockv, mq, procv, outcome, waited, activeSessions, nextStamp>>
    /\ UNCHANGED auxv

----------------------------------------------------------------------------
\* The /new command (bot.ts) with archiveSession and clearActiveSession.

\* /new archives without taking the chat's lock.
CallNew_noLock(c, k) ==
    /\ NextCall(c, NOps)
    /\ kind' = [kind EXCEPT ![c] = "new"]
    /\ key' = [key EXCEPT ![c] = k]
    /\ pc' = [pc EXCEPT ![c] = "new_stat"]
    /\ UNCHANGED <<target, cur, lockv, mq, procv, outcome, waited, fsv>>
    /\ UNCHANGED auxv

\* /new arrives for chat k: the handler calls acquireLock.
CallNew(c, k) ==
    /\ NextCall(c, NOps)
    /\ kind' = [kind EXCEPT ![c] = "new"]
    /\ key' = [key EXCEPT ![c] = k]
    /\ acquireLock(c, k, mq)
    /\ UNCHANGED <<target, cur, settled, releases, procv, outcome, fsv>>
    /\ UNCHANGED auxv

\* `await acquireLock` returns; archiveSession starts stat(currentPath).
NewAfterLock(c) ==
    /\ mq # <<>> /\ Head(mq) = c /\ pc[c] = "acquired" /\ kind[c] = "new"
    /\ pc' = [pc EXCEPT ![c] = "new_stat"]
    /\ mq' = Tail(mq)
    /\ UNCHANGED <<opv, lockv, procv, outcome, waited, fsv>>
    /\ UNCHANGED auxv

\* stat completes.  File present: rename is started.  File absent:
\* archiveSession returns null and clearActiveSession deletes the entry.
NewStat(c) ==
    /\ mq = <<>> /\ pc[c] = "new_stat"
    /\ IF files[getSessionPath(key[c])] # 0
       THEN pc' = [pc EXCEPT ![c] = "new_rename"] /\ UNCHANGED activeSessions
       ELSE /\ pc' = [pc EXCEPT ![c] = "new_reply"]
            /\ activeSessions' = [activeSessions EXCEPT ![key[c]] = NoFile]
    /\ UNCHANGED <<opv, lockv, mq, procv, outcome, waited, files, nextStamp>>
    /\ UNCHANGED auxv

\* rename(currentPath, archivePath) completes and clearActiveSession deletes
\* the entry.
NewRename(c) ==
    /\ mq = <<>> /\ pc[c] = "new_rename"
    /\ files[getSessionPath(key[c])] # 0
    /\ files' = [files EXCEPT ![ArchiveName(key[c], nextStamp)] = files[getSessionPath(key[c])],
                              ![getSessionPath(key[c])] = 0]
    /\ nextStamp' = nextStamp + 1
    /\ activeSessions' = [activeSessions EXCEPT ![key[c]] = NoFile]
    /\ pc' = [pc EXCEPT ![c] = "new_reply"]
    /\ UNCHANGED <<opv, lockv, mq, procv, outcome, waited>>
    /\ UNCHANGED auxv

\* rename fails (the file is gone since the stat): archiveSession throws,
\* `finally` releases and the handler rejects.
NewRenameThrows(c) ==
    /\ mq = <<>> /\ pc[c] = "new_rename"
    /\ files[getSessionPath(key[c])] = 0
    /\ ReleaseHandle(c, mq)
    /\ pc' = [pc EXCEPT ![c] = "done"]
    /\ outcome' = [outcome EXCEPT ![c] = "threw"]
    /\ UNCHANGED <<opv, procv, waited, fsv>>
    /\ UNCHANGED auxv

\* saveActiveSessions and ctx.reply are over; `finally` releases.
NewReply(c) ==
    /\ mq = <<>> /\ pc[c] = "new_reply"
    /\ ReleaseHandle(c, mq)
    /\ pc' = [pc EXCEPT ![c] = "done"]
    /\ outcome' = [outcome EXCEPT ![c] = "returned"]
    /\ UNCHANGED <<opv, procv, waited, fsv>>
    /\ UNCHANGED auxv

\* ctx.reply rejects (the Telegram request fails): `finally` releases and
\* the handler rejects.
NewReplyThrows(c) ==
    /\ mq = <<>> /\ pc[c] = "new_reply"
    /\ ReleaseHandle(c, mq)
    /\ pc' = [pc EXCEPT ![c] = "done"]
    /\ outcome' = [outcome EXCEPT ![c] = "threw"]
    /\ UNCHANGED <<opv, procv, waited, fsv>>
    /\ UNCHANGED auxv

----------------------------------------------------------------------------
\* The session:load callback (bot.ts) and switchSession (sessions.ts).

getActiveSessionFilename(k) ==
    IF activeSessions[k] # NoFile THEN activeSessions[k] ELSE getSessionPath(k)

\* The file names a session:load button can carry: a listed file, or a
\* default transcript, which may be gone by now.
Targets == {f \in FileNames : files[f] # 0} \cup {getSessionPath(k) : k \in Keys}

\* switchSession returns or throws: its locals are gone.
EndSwitch(c) ==
    /\ target' = [target EXCEPT ![c] = NoFile]
    /\ cur' = [cur EXCEPT ![c] = NoFile]

\* The callback arrives: switchSession reads the active session and returns
\* at once when it is the target, else starts stat(targetPath).
CallSwitch(c, k, t) ==
    /\ NextCall(c, NOps) /\ t \in Targets
    /\ kind' = [kind EXCEPT ![c] = "switch"]
    /\ key' = [key EXCEPT ![c] = k]
    /\ IF getActiveSessionFilename(k) = t
       THEN /\ pc' = [pc EXCEPT ![c] = "done"]
            /\ outcome' = [outcome EXCEPT ![c] = "returned"]
            /\ UNCHANGED <<target, cur>>
       ELSE /\ pc' = [pc EXCEPT ![c] = "sw_stat"]
            /\ target' = [target EXCEPT ![c] = t]
            /\ cur' = [cur EXCEPT ![c] = getActiveSessionFilename(k)]
            /\ UNCHANGED outcome
    /\ UNCHANGED <<lockv, mq, procv, waited, fsv>>
    /\ UNCHANGED auxv

\* stat(targetPath) completes: absent -> throw "Session not found".
SwitchStatTarget(c) ==
    /\ mq = <<>> /\ pc[c] = "sw_stat"
    /\ IF files[target[c]] = 0
       THEN /\ pc' = [pc EXCEPT ![c] = "done"]
            /\ outcome' = [outcome EXCEPT ![c] = "threw"]
            /\ EndSwitch(c)
       ELSE /\ pc' = [pc EXCEPT ![c] = "sw_stat2"]
            /\ UNCHANGED <<outcome, target, cur>>
    /\ UNCHANGED <<kind, key, lockv, mq, procv, waited, fsv>>
    /\ UNCHANGED auxv

\* stat(currentPath) completes: the current file is archived only when it
\* exists and is the default file.
SwitchStatCurrent(c) ==
    /\ mq = <<>> /\ pc[c] = "sw_stat2"
    /\ pc' = [pc EXCEPT ![c] =
                IF files[cur[c]] # 0 /\ cur[c] = getSessionPath(key[c])
                THEN "sw_rename" ELSE "sw_copy"]
    /\ UNCHANGED <<opv, lockv, mq, procv, outcome, waited, fsv>>
    /\ UNCHANGED auxv

\* rename(currentPath, archivePath) completes; a failure is swallowed by the
\* catch.  copyFile is started.
SwitchRename(c) ==
    /\ mq = <<>> /\ pc[c] = "sw_rename"
    /\ IF files[cur[c]] # 0
       THEN /\ files' = [files EXCEPT ![ArchiveName(key[c], nextStamp)] = files[cur[c]],
                                      ![cur[c]] = 0]
            /\ nextStamp' = nextStamp + 1
       ELSE UNCHANGED <<files, nextStamp>>
    /\ pc' = [pc EXCEPT ![c] = "sw_copy"]
    /\ UNCHANGED <<opv, lockv, mq, procv, outcome, waited, activeSessions>>
    /\ UNCHANGED auxv

\* copyFile(targetPath, defaultPath) completes (or throws when the target is
\* gone) and the active session is recorded.
SwitchCopy(c) ==
    /\ mq = <<>> /\ pc[c] = "sw_copy"
    /\ pc' = [pc EXCEPT ![c] = "done"]
    /\ IF files[target[c]] = 0
       THEN /\ outcome' = [outcome EXCEPT ![c] = "threw"]
            /\ UNCHANGED <<files, activeSessions>>
       ELSE /\ outcome' = [outcome EXCEPT ![c] = "returned"]
            /\ files' = [files EXCEPT ![getSessionPath(key[c])] = files[target[c]]]
            /\ activeSessions' = [activeSessions EXCEPT ![key[c]] = target[c]]
    /\ EndSwitch(c)
    /\ UNCHANGED <<kind, key, lockv, mq, procv, waited, nextStamp>>
    /\ UNCHANGED auxv

----------------------------------------------------------------------------
\* Direct users of the exported acquireLock (as the /new handler is one):
\* any code that takes the lock, keeps the handle and invokes it.

\* acquireLock(k) is called by the job now running.
CallLock(c, k) ==
    /\ NextCall(c, NClients)
    /\ kind' = [kind EXCEPT ![c] = "lock"]
    /\ key' = [key EXCEPT ![c] = k]
    /\ acquireLock(c, k, mq)
    /\ UNCHANGED <<target, cur, settled, releases, procv, outcome, fsv>>
    /\ UNCHANGED auxv

\* `await acquireLock` returns the handle to the caller.
LockGranted(c) ==
    /\ mq # <<>> /\ Head(mq) = c /\ pc[c] = "acquired" /\ kind[c] = "lock"
    /\ pc' = [pc EXCEPT ![c] = "holding"]
    /\ mq' = Tail(mq)
    /\ UNCHANGED <<opv, lockv, procv, outcome, waited, fsv>>
    /\ UNCHANGED auxv

\* The holder invokes its handle.
LockRelease(c) ==
    /\ mq = <<>> /\ pc[c] = "holding"
    /\ ReleaseHandle(c, mq)
    /\ pc' = [pc EXCEPT ![c] = "done"]
    /\ outcome' = [outcome EXCEPT ![c] = "returned"]
    /\ UNCHANGED <<opv, procv, waited, fsv>>
    /\ UNCHANGED auxv

\* The handle is invoked once more.
LockReleaseAgain(c) ==
    /\ mq = <<>> /\ pc[c] = "done" /\ kind[c] = "lock"
    /\ releases[c] < MaxReleases
    /\ ReleaseHandle(c, mq)
    /\ UNCHANGED <<pc, opv, procv, outcome, waited, fsv>>
    /\ UNCHANGED auxv

----------------------------------------------------------------------------
\* One runPiWithStreaming call in detail: its output handlers, its activity
\* interval, its timers and the RunResult it builds.  Text is a sequence of
\* tokens: "R" is a piece of text such as "Reading a.ts" that detectActivity
\* classifies when a line starts with it, "x" is text it does not classify,
\* "n" is a newline; "e" is a piece of stderr text.  A stdout chunk is a
\* Buffer, a sequence of bytes: "R", "x" and "n" stand for the bytes of these
\* ASCII texts, "c1" and "c2" are the two bytes of one character outside
\* ASCII, which decodes to "u".

Chunks == {<<"R">>, <<"x">>, <<"n">>, <<"R", "n">>, <<"c1">>, <<"c2">>}
ExitCodes == {0, 1, -1}     \* -1: the code is null (killed by a signal)

\* Buffer.toString() (utf8): a complete character decodes to itself, each
\* byte of an incomplete or misplaced sequence to U+FFFD ("?").
RECURSIVE toString(_)
toString(data) ==
    IF data = <<>> THEN <<>>
    ELSE IF Head(data) = "c1" /\ Len(data) >= 2 /\ data[2] = "c2"
         THEN <<"u">> \o toString(SubSeq(data, 3, Len(data)))
    ELSE IF Head(data) \in {"c1", "c2"} THEN <<"?">> \o toString(Tail(data))
    ELSE <<Head(data)>> \o toString(Tail(data))

\* a || b on strings: the empty string is falsy.
OrElse(a, b) == IF a # <<>> THEN a ELSE b

\* detectActivity(line), after trim: null (NoActivity) for an empty line and
\* for a line that starts with no known word.
detectActivity(line) ==
    IF line = <<>> THEN NoActivity
    ELSE IF Head(line) = "R" THEN [type |-> "reading", detail |-> "file", elapsed |-> -1]
    ELSE NoActivity

\* text.split("\n"): the pieces between newlines, the last one being what
\* follows the last newline.
RECURSIVE Split(_)
Split(text) ==
    IF \A i \in 1..Len(text) : text[i] # "n" THEN <<text>>
    ELSE LET i == CHOOSE j \in 1..Len(text) :
                      text[j] = "n" /\ \A m \in 1..(j - 1) : text[m] # "n"
         IN  <<SubSeq(text, 1, i - 1)>> \o Split(SubSeq(text, i + 1, Len(text)))

\* The activities processLine passes to onActivity for a list of lines.
RECURSIVE Activities(_)
Activities(lines) ==
    IF lines = <<>> THEN <<>>
    ELSE (IF detectActivity(Head(lines)) # NoActivity
          THEN <<detectActivity(Head(lines))>> ELSE <<>>) \o Activities(Tail(lines))

\* Math.floor((Date.now() - startTime) / 1000).
Elapsed == now - startTime

\* The time since the last classified activity instead of since the start.
processLine_sinceLast(lines) ==
    LET acts == Activities(lines)
        since == IF lastActivity = NoActivity THEN Elapsed
                 ELSE Elapsed - lastActivity.elapsed
    IN  /\ handed' = handed \o lines
        /\ IF acts = <<>> THEN UNCHANGED <<lastActivity, emitted, lastEmit>>
           ELSE /\ lastActivity' = [acts[Len(acts)] EXCEPT !.elapsed = since]
                /\ lastEmit' = lastActivity'
                /\ emitted' = emitted + Len(acts)

\* processLine on each of `lines`: every classified line sets lastActivity
\* and is passed to onActivity with the elapsed time computed at the call.
processLine(lines) ==
    LET acts == Activities(lines)
    IN  /\ handed' = handed \o lines
        /\ IF acts = <<>> THEN UNCHANGED <<lastActivity, emitted, lastEmit>>
           ELSE /\ lastActivity' = [acts[Len(acts)] EXCEPT !.elapsed = Elapsed]
                /\ lastEmit' = lastActivity'
                /\ emitted' = emitted + Len(acts)

\* The result the close handler builds.
closeResult_anyStderr(code, out, err) ==
    IF err # <<>>
    THEN [output |-> OrElse(out, <<"Error occurred">>), error |-> err]
    ELSE [output |-> OrElse(out, <<"(no output)">>), error |-> Absent]

closeResult(code, out, err) ==
    IF code # 0 /\ err # <<>>
    THEN [output |-> OrElse(out, <<"Error occurred">>), error |-> err]
    ELSE [output |-> OrElse(out, <<"(no output)">>), error |-> Absent]

\* The result the error handler builds from err.message.
errorResult_withOutput(out, msg) ==
    [output |-> OrElse(out, <<"Error occurred">>), error |-> <<"Failed to start Pi: ", msg>>]

errorResult(out, msg) ==
    [output |-> <<>>, error |-> <<"Failed to start Pi: ", msg>>]

\* The result the timeout callback builds.
timeoutResult_noOutput(out) ==
    [output |-> <<"(no output)">>, error |-> <<"Timeout: Pi took too long">>]

timeoutResult(out) ==
    [output |-> OrElse(out, <<>>), error |-> <<"Timeout: Pi took too long">>]

\* resolve(r) on the result promise: the first resolution stays, and the
\* run's await continuation returns it.
StreamResolve(r, by) ==
    IF sresult = NoResult
    THEN sresult' = r /\ resolvedBy' = by /\ sphase' = "returned"
    ELSE UNCHANGED <<sresult, resolvedBy, sphase>>

\* The clock advances by a second.
Tick ==
    /\ now < MaxTime
    /\ now' = now + 1
    /\ UNCHANGED <<sphase, startTime, sproc, exitCode, stdout, stderr, lineBuffer,
                   arrived, handed, lastActivity, activityInterval, intervalDue,
                   timeoutDue, stimer, sresult, resolvedBy, emitted, lastEmit>>
    /\ UNCHANGED streamOthers

\* runPiWithStreaming has the lock: startTime is taken and mkdir started.
StreamStart ==
    /\ sphase = "idle"
    /\ sphase' = "mkdir"
    /\ startTime' = now
    /\ UNCHANGED <<now, sproc, exitCode, stdout, stderr, lineBuffer, arrived, handed,
                   lastActivity, activityInterval, intervalDue, timeoutDue,
                   stimer, sresult, resolvedBy, emitted, lastEmit>>
    /\ UNCHANGED streamOthers

\* mkdir or spawn throws: the run rejects.
StreamThrows ==
    /\ sphase = "mkdir"
    /\ sphase' = "threw"
    /\ UNCHANGED <<now, startTime, sproc, exitCode, stdout, stderr, lineBuffer,
                   arrived, handed, lastActivity, activityInterval, intervalDue,
                   timeoutDue, stimer, sresult, resolvedBy, emitted, lastEmit>>
    /\ UNCHANGED streamOthers

\* The promise executor: spawn, the handlers, setInterval and setTimeout.
StreamSpawn(how) ==
    /\ sphase = "mkdir"
    /\ sphase' = "spawned"
    /\ sproc' = how
    /\ activityInterval' = "active"
    /\ intervalDue' = now + IntervalS
    /\ stimer' = "pending"
    /\ timeoutDue' = now + PiTimeoutS
    /\ UNCHANGED <<now, startTime, exitCode, stdout, stderr, lineBuffer, arrived, handed,
                   lastActivity, sresult, resolvedBy, emitted, lastEmit>>
    /\ UNCHANGED streamOthers

\* clearInterval(activityInterval).
clearInterval == activityInterval' = "cleared"

\* Output restarts the timeout.
StdoutData_postpones(chunk) ==
    /\ sproc \in {"alive", "termed"} /\ Len(arrived) < MaxChunks
    /\ stdout' = stdout \o toString(chunk)
    /\ arrived' = Append(arrived, chunk)
    /\ LET lines == Split(lineBuffer \o toString(chunk))
       IN  /\ lineBuffer' = lines[Len(lines)]
           /\ processLine(SubSeq(lines, 1, Len(lines) - 1))
    /\ timeoutDue' = now + PiTimeoutS
    /\ UNCHANGED <<now, sphase, startTime, sproc, exitCode, stderr,
                   activityInterval, intervalDue, stimer, sresult,
                   resolvedBy>>
    /\ UNCHANGED streamOthers

\* proc.stdout "data": the chunk is appended to stdout and to lineBuffer, the
\* complete lines are processed and the rest stays in lineBuffer.  The
\* handler stays attached for the life of the process.
StdoutData(chunk) ==
    /\ sproc \in {"alive", "termed"} /\ Len(arrived) < MaxChunks
    /\ stdout' = stdout \o toString(chunk)
    /\ arrived' = Append(arrived, chunk)
    /\ LET lines == Split(lineBuffer \o toString(chunk))
       IN  /\ lineBuffer' = lines[Len(lines)]
           /\ processLine(SubSeq(lines, 1, Len(lines) - 1))
    /\ UNCHANGED <<now, sphase, startTime, sproc, exitCode, stderr,
                   activityInterval, intervalDue, timeoutDue, stimer, sresult,
                   resolvedBy>>
    /\ UNCHANGED streamOthers

\* proc.stderr "data".
StderrData ==
    /\ sproc \in {"alive", "termed"} /\ stderr = <<>>
    /\ stderr' = stderr \o <<"e">>
    /\ UNCHANGED <<now, sphase, startTime, sproc, exitCode, stdout, lineBuffer,
                   arrived, handed, lastActivity, activityInterval, intervalDue,
                   timeoutDue, stimer, sresult, resolvedBy, emitted, lastEmit>>
    /\ UNCHANGED streamOthers

\* The synthetic update is stored as lastActivity.
ActivityInterval_resetsQuiet ==
    /\ activityInterval = "active" /\ now >= intervalDue
    /\ intervalDue' = now + IntervalS
    /\ IF lastActivity = NoActivity \/ Elapsed - lastActivity.elapsed > QuietS
       THEN /\ lastEmit' = [type |-> "working", detail |-> "", elapsed |-> Elapsed]
            /\ lastActivity' = lastEmit'
            /\ emitted' = emitted + 1
       ELSE UNCHANGED <<lastEmit, emitted, lastActivity>>
    /\ UNCHANGED <<now, sphase, startTime, sproc, exitCode, stdout, stderr,
                   lineBuffer, arrived, handed, activityInterval,
                   timeoutDue, stimer, sresult, resolvedBy>>
    /\ UNCHANGED streamOthers

\* The setInterval callback: a "working" update when nothing was classified
\* yet or the last classified activity is more than QuietS old.
ActivityInterval ==
    /\ activityInterval = "active" /\ now >= intervalDue
    /\ intervalDue' = now + IntervalS
    /\ IF lastActivity = NoActivity \/ Elapsed - lastActivity.elapsed > QuietS
       THEN /\ lastEmit' = [type |-> "working", detail |-> "", elapsed |-> Elapsed]
            /\ emitted' = emitted + 1
       ELSE UNCHANGED <<lastEmit, emitted>>
    /\ UNCHANGED <<now, sphase, startTime, sproc, exitCode, stdout, stderr,
                   lineBuffer, arrived, handed, lastActivity, activityInterval,
                   timeoutDue, stimer, sresult, resolvedBy>>
    /\ UNCHANGED streamOthers

\* proc "close" with exit code `code`: the interval is cleared, what is left
\* in lineBuffer is processed, the result is resolved.
StreamClose(code) ==
    /\ sproc \in {"alive", "termed", "errored"}
    /\ sproc' = "closed"
    /\ exitCode' = code
    /\ clearInterval
    /\ IF lineBuffer # <<>> THEN processLine(<<lineBuffer>>)
       ELSE UNCHANGED <<lastActivity, emitted, lastEmit, handed>>
    /\ StreamResolve(closeResult(code, stdout, stderr), "close")
    /\ UNCHANGED <<now, startTime, stdout, stderr, lineBuffer, arrived,
                   intervalDue, timeoutDue, stimer>>
    /\ UNCHANGED streamOthers

\* proc "error": the process could not be started.
StreamError ==
    /\ sproc = "failed"
    /\ sproc' = "errored"
    /\ clearInterval
    /\ StreamResolve(errorResult(stdout, "spawn pi ENOENT"), "error")
    /\ UNCHANGED <<now, startTime, exitCode, stdout, stderr, lineBuffer, arrived, handed,
                   lastActivity, intervalDue, timeoutDue, stimer, emitted, lastEmit>>
    /\ UNCHANGED streamOthers

\* The setTimeout callback, due piTimeoutMs after the spawn and never
\* cleared: clearInterval, proc.kill("SIGTERM"), resolve.
StreamTimeout ==
    /\ stimer = "pending" /\ now >= timeoutDue
    /\ stimer' = "fired"
    /\ clearInterval
    /\ sproc' = IF sproc = "alive" THEN "termed" ELSE sproc
    /\ StreamResolve(timeoutResult(stdout), "timeout")
    /\ UNCHANGED <<now, startTime, exitCode, stdout, stderr, lineBuffer, arrived, handed,
                   lastActivity, intervalDue, timeoutDue, emitted, lastEmit>>
    /\ UNCHANGED streamOthers

----------------------------------------------------------------------------
\* The message:text handler (bot.ts): watermark, run, image extraction.

\* A transcript file's lines: a toolResult message with an image ("img"),
\* another JSON entry ("msg"), a line that is not JSON ("bad"), a line of
\* white space ("blank"), the JSON text null ("null"), a toolResult message
\* whose content list holds an image and then a null item ("partial").
LineKinds == {"img", "msg", "bad", "blank", "null", "partial"}

\* The number of leading blank lines, which content.trim() removes.
RECURSIVE LeadingBlanks(_)
LeadingBlanks(content) ==
    IF content = <<>> \/ Head(content) # "blank" THEN 0
    ELSE 1 + LeadingBlanks(Tail(content))

RECURSIVE DropTrailingBlanks(_)
DropTrailingBlanks(content) ==
    IF content = <<>> \/ content[Len(content)] # "blank" THEN content
    ELSE DropTrailingBlanks(SubSeq(content, 1, Len(content) - 1))

\* content.trim().split("\n"): the lines without the leading and trailing
\* blank ones; the empty string splits into one empty line.
TrimSplit(content) ==
    LET rest == DropTrailingBlanks(SubSeq(content, LeadingBlanks(content) + 1, Len(content)))
    IN  IF rest = <<>> THEN <<"blank">> ELSE rest

\* getSessionLineCount on a file: content.trim().split("\n").length, and 0
\* when readFile fails.
getSessionLineCount(exists, content) ==
    IF ~exists THEN 0 ELSE Len(TrimSplit(content))

\* What readFile gives for chat k's transcript: Pi appends whole records, so
\* a transcript with no line is a file that does not exist.
SessionExists(k) == transcript[k] # <<>>
SessionContent(k) == [i \in 1..Len(transcript[k]) |-> "img"]

\* A text message of chat k arrives: rate limit passed, getWorkspace and
\* snapshotWorkspace awaited, readFile of the transcript started.
TurnArrive(c, k) ==
    /\ NextCall(c, NOps)
    /\ kind' = [kind EXCEPT ![c] = "run"]
    /\ key' = [key EXCEPT ![c] = k]
    /\ pc' = [pc EXCEPT ![c] = "t_mark"]
    /\ UNCHANGED <<target, cur, lockv, mq, procv, outcome, waited, fsv, turnv>>
    /\ UNCHANGED turnOthers

\* readFile completes: sessionLinesBefore is taken; the status reply is sent.
TurnMark(c) ==
    /\ mq = <<>> /\ pc[c] = "t_mark"
    /\ mark' = [mark EXCEPT ![c] = getSessionLineCount(SessionExists(key[c]),
                                                        SessionContent(key[c]))]
    /\ tpc' = [tpc EXCEPT ![c] = "marked"]
    /\ pc' = [pc EXCEPT ![c] = "t_ready"]
    /\ UNCHANGED <<opv, lockv, mq, procv, outcome, waited, fsv, transcript, sent>>
    /\ UNCHANGED turnOthers

\* ctx.reply completes: runPiWithStreaming is called and runs acquireLock.
TurnRun(c) ==
    /\ mq = <<>> /\ pc[c] = "t_ready"
    /\ acquireLock(c, key[c], mq)
    /\ UNCHANGED <<opv, settled, releases, procv, outcome, fsv, turnv>>
    /\ UNCHANGED turnOthers

\* The Pi process of run c appends an image record to its --session file.
ProcAppend(c) ==
    /\ mq = <<>> /\ proc[c] \in {"alive", "termed"}
    /\ Cardinality({i \in 1..Len(transcript[key[c]]) : transcript[key[c]][i] = c}) < MaxAppends
    /\ transcript' = [transcript EXCEPT ![key[c]] = Append(@, c)]
    /\ files' = [files EXCEPT ![getSessionPath(key[c])] = IF @ = 0 THEN c ELSE @]
    /\ UNCHANGED <<pc, opv, lockv, mq, procv, outcome, waited, activeSessions,
                   nextStamp, tpc, mark, sent>>
    /\ UNCHANGED turnOthers

\* No slice: every line is scanned.
slice_all(seq, n) == [i \in 1..Len(seq) |-> i - 1]

\* lines.slice(n), n >= 0, as the 0-based indexes it keeps.
slice(seq, n) == [i \in 1..(IF Len(seq) > n THEN Len(seq) - n ELSE 0) |-> n + i - 1]

\* The body of the inner try for one line: the number of images pushed and
\* whether it throws (JSON.parse of a line that is not JSON or is empty, a
\* property read on null).
scanLine(line) ==
    CASE line = "img" -> [pushed |-> 1, threw |-> FALSE]
      [] line = "partial" -> [pushed |-> 1, threw |-> TRUE]
      [] line \in {"bad", "blank", "null"} -> [pushed |-> 0, threw |-> TRUE]
      [] OTHER -> [pushed |-> 0, threw |-> FALSE]

\* No inner catch: the exception leaves the loop.
innerCatch_rethrows(r) == r

\* The inner catch block is empty: the exception ends this line only.
innerCatch(r) == [r EXCEPT !.threw = FALSE]

\* The loop over lines.slice(afterLine): the images pushed, each named by
\* the 0-based line of the file it is on, and whether an exception left it.
scanLines(content, afterLine) ==
    LET trimmed == TrimSplit(content)
        kept == slice(trimmed, afterLine)
        F[i \in 0..Len(kept)] ==
            IF i = 0 THEN [images |-> <<>>, threw |-> FALSE]
            ELSE IF F[i - 1].threw THEN F[i - 1]
            ELSE LET r == innerCatch(scanLine(trimmed[kept[i] + 1]))
                 IN  [images |-> F[i - 1].images
                                    \o [j \in 1..r.pushed |-> kept[i] + LeadingBlanks(content)],
                      threw |-> r.threw]
    IN  F[Len(kept)]

\* extractImagesFromSession on a file with these lines: what the loop
\* pushed; the outer catch block is empty.
extractImagesFromSession(content, afterLine) == scanLines(content, afterLine).images

\* How the call ends: readFile inside the outer try throws when the file
\* cannot be read, and the outer catch lets nothing through.
extractOutcome(exists, content, afterLine) ==
    LET inTry == IF ~exists \/ scanLines(content, afterLine).threw THEN "threw" ELSE "ok"
    IN  IF inTry \in {"ok", "threw"} THEN "returned" ELSE "threw"

\* The transcript lines, counted from 1, of the images returned for chat k.
ImagesSentFor(k, afterLine) ==
    LET imgs == extractImagesFromSession(SessionContent(k), afterLine)
    IN  {imgs[i] + 1 : i \in 1..Len(imgs)}

\* The run has returned and the replies are sent: the transcript is read,
\* extractImagesFromSession(chatId, sessionLinesBefore) runs and each image
\* is sent.
TurnExtract(c) ==
    /\ mq = <<>> /\ pc[c] = "done" /\ outcome[c] = "returned" /\ tpc[c] = "marked"
    /\ sent' = [sent EXCEPT ![c] = ImagesSentFor(key[c], mark[c])]
    /\ tpc' = [tpc EXCEPT ![c] = "sent"]
    /\ UNCHANGED <<pc, opv, lockv, mq, procv, outcome, waited, fsv, mark, transcript>>
    /\ UNCHANGED turnOthers

\* The run threw: the catch block replies "Failed to process".
TurnFailed(c) ==
    /\ mq = <<>> /\ pc[c] = "done" /\ outcome[c] = "threw" /\ tpc[c] = "marked"
    /\ tpc' = [tpc EXCEPT ![c] = "failed"]
    /\ UNCHANGED <<pc, opv, lockv, mq, procv, outcome, waited, fsv, mark, transcript, sent>>
    /\ UNCHANGED turnOthers

----------------------------------------------------------------------------
\* extractImagesFromSession as a function of the file and of afterLine.

\* The transcript file is created with nothing in it.
FileCreate ==
    /\ ~xExists
    /\ xExists' = TRUE
    /\ UNCHANGED <<xFile, xMark, xMarkLen, xContent, xAfter, xImages, xOutcome>>
    /\ UNCHANGED extractOthers

\* A line is appended to the transcript file (which creates it).
FileAppend(line) ==
    /\ Len(xFile) < MaxLen
    /\ xFile' = Append(xFile, line)
    /\ xExists' = TRUE
    /\ UNCHANGED <<xMark, xMarkLen, xContent, xAfter, xImages, xOutcome>>
    /\ UNCHANGED extractOthers

\* A turn begins: sessionLinesBefore = getSessionLineCount(config, chatId).
TakeMark ==
    /\ xMark' = getSessionLineCount(xExists, xFile)
    /\ xMarkLen' = Len(xFile)
    /\ xContent' = <<>> /\ xAfter' = NoMark /\ xImages' = <<>> /\ xOutcome' = "none"
    /\ UNCHANGED <<xExists, xFile>>
    /\ UNCHANGED extractOthers

\* extractImagesFromSession(config, chatId, afterLine) reads the file and
\* returns its images, none when readFile fails.
ExtractCall(afterLine) ==
    /\ xContent' = xFile
    /\ xAfter' = afterLine
    /\ xImages' = IF xExists THEN extractImagesFromSession(xFile, afterLine) ELSE <<>>
    /\ xOutcome' = extractOutcome(xExists, xFile, afterLine)
    /\ UNCHANGED <<xExists, xFile, xMark, xMarkLen>>
    /\ UNCHANGED extractOthers

----------------------------------------------------------------------------
\* The rate limiter.

\* The entry keeps the time of the first request.
checkRateLimit_noUpdate(chatId, cooldownMs) ==
    LET entry == rateLimits[chatId]
        elapsed == now - entry
    IN  /\ IF entry = NoEntry
           THEN /\ rateLimits' = [rateLimits EXCEPT ![chatId] = now]
                /\ allowedAt' = [allowedAt EXCEPT ![chatId] = Append(@, now)]
                /\ rlast' = [chatId |-> chatId, at |-> now, allowed |-> TRUE, retryAfterMs |-> 0]
           ELSE IF elapsed >= cooldownMs
           THEN /\ UNCHANGED rateLimits
                /\ allowedAt' = [allowedAt EXCEPT ![chatId] = Append(@, now)]
                /\ rlast' = [chatId |-> chatId, at |-> now, allowed |-> TRUE, retryAfterMs |-> 0]
           ELSE /\ UNCHANGED <<rateLimits, allowedAt>>
                /\ rlast' = [chatId |-> chatId, at |-> now, allowed |-> FALSE,
                             retryAfterMs |-> cooldownMs - elapsed]
        /\ UNCHANGED rateOthers

\* A refused request restarts the chat's cooldown.
checkRateLimit_stampsDenied(chatId, cooldownMs) ==
    LET entry == rateLimits[chatId]
        elapsed == now - entry
    IN  /\ rateLimits' = [rateLimits EXCEPT ![chatId] = now]
        /\ IF entry = NoEntry \/ elapsed >= cooldownMs
           THEN /\ allowedAt' = [allowedAt EXCEPT ![chatId] = Append(@, now)]
                /\ rlast' = [chatId |-> chatId, at |-> now, allowed |-> TRUE, retryAfterMs |-> 0]
           ELSE /\ UNCHANGED allowedAt
                /\ rlast' = [chatId |-> chatId, at |-> now, allowed |-> FALSE,
                             retryAfterMs |-> cooldownMs - elapsed]
        /\ UNCHANGED rateOthers

\* checkRateLimit(chatId, cooldownMs) at the time `now`.
checkRateLimit(chatId, cooldownMs) ==
    LET entry == rateLimits[chatId]
        elapsed == now - entry
    IN  /\ IF entry = NoEntry \/ elapsed >= cooldownMs
           THEN /\ rateLimits' = [rateLimits EXCEPT ![chatId] = now]
                /\ allowedAt' = [allowedAt EXCEPT ![chatId] = Append(@, now)]
                /\ rlast' = [chatId |-> chatId, at |-> now, allowed |-> TRUE, retryAfterMs |-> 0]
           ELSE /\ UNCHANGED <<rateLimits, allowedAt>>
                /\ rlast' = [chatId |-> chatId, at |-> now, allowed |-> FALSE,
                             retryAfterMs |-> cooldownMs - elapsed]
        /\ UNCHANGED rateOthers

----------------------------------------------------------------------------
\* createBot's access control and the dispatch of an update.

Users == 0..MaxUser
Senders == Users \cup {NoSender}
HandlerKinds == {"command", "callback", "message"}

\* createBot(config): the access middleware is installed first, and only
\* when the allowlist is not empty; the handlers are registered after it.
createBot(allow) ==
    /\ ~created
    /\ created' = TRUE
    /\ allowedUsers' = allow
    /\ middleware' = (Cardinality(allow) > 0)
    /\ UNCHANGED <<reached, denied, lastUpdate>>
    /\ UNCHANGED accessOthers

\* The middleware lets every update with a sender through.
AccessMiddleware_anySender(userId) == userId # NoSender /\ userId # 0

\* The middleware's test: `userId && config.allowedUsers.includes(userId)`
\* (the id 0 is falsy).
AccessMiddleware(userId) ==
    userId # NoSender /\ userId # 0 /\ userId \in allowedUsers

\* An update from `from` for a handler of kind `h` is dispatched: it goes
\* through the middleware, when one is installed, and then to its handler.
Update(from, h) ==
    /\ created
    /\ IF middleware /\ ~AccessMiddleware(from)
       THEN /\ denied' = denied \cup {from}
            /\ lastUpdate' = [from |-> from, kind |-> h, ended |-> "not authorized"]
            /\ UNCHANGED reached
       ELSE /\ reached' = reached \cup {from}
            /\ lastUpdate' = [from |-> from, kind |-> h, ended |-> "handler"]
            /\ UNCHANGED denied
    /\ UNCHANGED <<created, allowedUsers, middleware>>
    /\ UNCHANGED accessOthers

----------------------------------------------------------------------------
\* The argument list runPiWithStreaming passes to spawn.  An argument is a
\* text, a sequence of pieces.

MaxImages == 2
Levels == {"low", "medium", "high"}
ImagePaths == {<<"/tmp/a.jpg">>, <<"/tmp/b.png">>}
ImageLists == UNION {[1..n -> ImagePaths] : n \in 0..MaxImages}
OptionValues == {NoOptions} \cup {[given |-> TRUE, imagePaths |-> l] : l \in ImageLists}
\* A plain prompt, one that reads like an option, one that starts with "@".
Prompts == {<<"hi">>, <<"--print">>, <<"@", "/tmp/c.png">>}

\* join(config.sessionDir, `telegram-${chatId}.jsonl`).
sessionPath(chatId) == <<"sessionDir/", "telegram-", ToString(chatId), ".jsonl">>

\* The prompt is pushed before the image paths.
spawnArgs_promptFirst(chatId, level, options, prompt) ==
    <<<<"--session">>, sessionPath(chatId), <<"--print">>, <<"--thinking">>, <<level>>>>
        \o <<prompt>>
        \o [i \in 1..Len(options.imagePaths) |-> <<"@">> \o options.imagePaths[i]]

\* args: the five fixed arguments, `@${imagePath}` for each of
\* options.imagePaths when options is given, then the prompt.
spawnArgs(chatId, level, options, prompt) ==
    <<<<"--session">>, sessionPath(chatId), <<"--print">>, <<"--thinking">>, <<level>>>>
        \o (IF options.given
            THEN [i \in 1..Len(options.imagePaths) |-> <<"@">> \o options.imagePaths[i]]
            ELSE <<>>)
        \o <<prompt>>

\* runPiWithStreaming builds the list and spawns pi with it.
SpawnWithArgs(chatId, level, options, prompt) ==
    /\ aChat' = chatId /\ aLevel' = level /\ aOptions' = options /\ aPrompt' = prompt
    /\ args' = spawnArgs(chatId, level, options, prompt)
    /\ UNCHANGED argsOthers

----------------------------------------------------------------------------
\* main() (index.ts) and checkPiAuth.

\* The code of the close event that follows a failed spawn: the negated
\* errno, never 0.
SpawnErrno == -3

\* A close by a signal (code null) counts as success.
authCloseValue_nullOk(code) == IF code = 0 \/ code = -1 THEN "true" ELSE "false"

\* resolve(code === 0).
authCloseValue(code) == IF code = 0 THEN "true" ELSE "false"

\* resolve(v) of checkPiAuth's promise: the first call settles it.
AuthResolve(v, by) ==
    IF authResult = "pending"
    THEN authResult' = v /\ authBy' = by
    ELSE UNCHANGED <<authResult, authBy>>

\* main calls checkPiAuth: spawn("pi", ["--version"]) and the two handlers.
AuthSpawn(how) ==
    /\ mainpc = "start"
    /\ mainpc' = "auth"
    /\ authProc' = how
    /\ UNCHANGED <<authCode, authResult, authBy>>
    /\ UNCHANGED mainOthers

\* spawn throws in the executor: the promise rejects and main's catch exits.
AuthThrows ==
    /\ mainpc = "start"
    /\ mainpc' = "exited"
    /\ authResult' = "rejected"
    /\ UNCHANGED <<authProc, authCode, authBy>>
    /\ UNCHANGED mainOthers

\* proc "error": pi could not be started.
AuthError ==
    /\ authProc = "failed"
    /\ authProc' = "errored"
    /\ AuthResolve("false", "error")
    /\ UNCHANGED <<mainpc, authCode>>
    /\ UNCHANGED mainOthers

\* proc "close": of the started process with its exit code (-1: null), or
\* after the error event with the errno.
AuthClose(code) ==
    /\ \/ authProc = "alive" /\ code \in ExitCodes
       \/ authProc = "errored" /\ code = SpawnErrno
    /\ authProc' = "closed"
    /\ authCode' = code
    /\ AuthResolve(authCloseValue(code), "close")
    /\ UNCHANGED mainpc
    /\ UNCHANGED mainOthers

\* piOk is false: process.exit(1).
MainExit ==
    /\ mainpc = "auth" /\ authResult = "false"
    /\ mainpc' = "exited"
    /\ UNCHANGED <<authProc, authCode, authResult, authBy>>
    /\ UNCHANGED mainOthers

\* piOk is true: createBot(config), then bot.start().
MainCreateBot(allow) ==
    /\ mainpc = "auth" /\ authResult = "true"
    /\ createBot(allow)

\* An update reaches the started bot.
MainUpdate(from, h) ==
    /\ mainpc = "auth"
    /\ Update(from, h)

----------------------------------------------------------------------------
\* categorizeFiles (file-detector.ts).  A path is its directory and the
\* pieces of its last component between dots: "/w/a.png" has the pieces
\* <<"a", "png">>, "/w/.gif" the pieces <<"", "gif">>.

MaxFiles == 2

IMAGE_EXTENSIONS == {<<".", e>> : e \in {"png", "jpg", "jpeg", "gif", "webp"}}
DOCUMENT_EXTENSIONS ==
    {<<".", e>> : e \in {"pdf", "txt", "md", "json", "csv", "html", "xml", "yaml", "yml"}}

CatPaths ==
    {[dir |-> "/w/", base |-> b] :
        b \in {<<"a", "png">>, <<"a", "PNG">>, <<"b", "Jpeg">>, <<"c", "pdf">>,
               <<"c", "YML">>, <<"d", "exe">>, <<"", "gif">>, <<"f", "png", "txt">>,
               <<"h", "">>}}
    \cup {[dir |-> "/w.png/", base |-> <<"e">>]}
CatLists == UNION {[1..n -> CatPaths] : n \in 0..MaxFiles}

\* String.prototype.toLowerCase on a piece.
toLowerCase(t) ==
    CASE t = "PNG" -> "png"
      [] t = "Jpeg" -> "jpeg"
      [] t = "YML" -> "yml"
      [] OTHER -> t

\* path.extname: from the last dot of the last component to its end; empty
\* when there is no dot or the only dot is the first character.
extname(filePath) ==
    LET b == filePath.base
    IN  IF Len(b) <= 1 \/ (Len(b) = 2 /\ b[1] = "") THEN <<>>
        ELSE <<".", b[Len(b)]>>

\* The extension is compared as it is spelled.
ext_caseSensitive(filePath) == extname(filePath)

\* extname(filePath).toLowerCase().
ext(filePath) ==
    LET e == extname(filePath)
    IN  IF e = <<>> THEN e ELSE <<".", toLowerCase(e[2])>>

\* categorizeFiles(filePaths): the loop over the paths.
RECURSIVE categorizeFiles(_)
categorizeFiles(filePaths) ==
    IF filePaths = <<>> THEN <<>>
    ELSE LET filePath == filePaths[Len(filePaths)]
             found == categorizeFiles(SubSeq(filePaths, 1, Len(filePaths) - 1))
         IN  IF ext(filePath) \in IMAGE_EXTENSIONS
             THEN Append(found, [path |-> filePath, filename |-> filePath.base, type |-> "photo"])
             ELSE IF ext(filePath) \in DOCUMENT_EXTENSIONS
             THEN Append(found, [path |-> filePath, filename |-> filePath.base, type |-> "document"])
             ELSE found

\* A call of categorizeFiles.
Categorize(filePaths) ==
    /\ cIn' = filePaths
    /\ cOut' = categorizeFiles(filePaths)
    /\ UNCHANGED catOthers

----------------------------------------------------------------------------
\* snapshotWorkspace and detectNewFiles (file-detector.ts) on a workspace
\* that changes between the calls.

MaxMtime == 1

\* getFileList(dir): the mtime of each regular file entry; the empty map
\* when readdir fails.
getFileList(ok, entries) ==
    [p \in DPaths |-> IF ok /\ entries[p].kind = "file" THEN entries[p].mtime ELSE NoMtime]

\* A file whose mtime equals the snapshot's counts as modified.
newFiles_notOlder(afterFiles, beforeFiles) ==
    {p \in DPaths : afterFiles[p] # NoMtime
                     /\ (beforeFiles[p] = NoMtime \/ afterFiles[p] >= beforeFiles[p])}

\* The loop of detectNewFiles: the paths of afterFiles that beforeFiles does
\* not have or has with a smaller mtime.
newFiles(afterFiles, beforeFiles) ==
    {p \in DPaths : afterFiles[p] # NoMtime
                     /\ (beforeFiles[p] = NoMtime \/ afterFiles[p] > beforeFiles[p])}

\* A regular file is created or written, with some mtime (utimes and copies
\* that keep the time can set any).
FsWrite(p, m) ==
    /\ wsOk /\ wsFiles[p].kind # "dir"
    /\ wsFiles' = [wsFiles EXCEPT ![p] = [kind |-> "file", mtime |-> m]]
    /\ UNCHANGED <<wsOk, before, dLast>>
    /\ UNCHANGED detectOthers

\* A subdirectory is created.
FsMkdir(p) ==
    /\ wsOk /\ wsFiles[p].kind = "none"
    /\ wsFiles' = [wsFiles EXCEPT ![p] = [kind |-> "dir", mtime |-> 0]]
    /\ UNCHANGED <<wsOk, before, dLast>>
    /\ UNCHANGED detectOthers

\* An entry is removed.
FsRemove(p) ==
    /\ wsOk /\ wsFiles[p].kind # "none"
    /\ wsFiles' = [wsFiles EXCEPT ![p] = NoEntryAt]
    /\ UNCHANGED <<wsOk, before, dLast>>
    /\ UNCHANGED detectOthers

\* The workspace directory is removed with what it holds.
FsRemoveDir ==
    /\ wsOk
    /\ wsOk' = FALSE
    /\ wsFiles' = [p \in DPaths |-> NoEntryAt]
    /\ UNCHANGED <<before, dLast>>
    /\ UNCHANGED detectOthers

\* The workspace directory is created again.
FsCreateDir ==
    /\ ~wsOk
    /\ wsOk' = TRUE
    /\ UNCHANGED <<wsFiles, before, dLast>>
    /\ UNCHANGED detectOthers

\* snapshotWorkspace(workspace).
snapshotWorkspace ==
    /\ before' = getFileList(wsOk, wsFiles)
    /\ UNCHANGED <<wsOk, wsFiles, dLast>>
    /\ UNCHANGED detectOthers

\* detectNewFiles(workspace, beforeFiles) with the snapshot.
detectNewFiles ==
    /\ dLast' = [called |-> TRUE, ok |-> wsOk, files |-> wsFiles, before |-> before,
                 new |-> newFiles(getFileList(wsOk, wsFiles), before)]
    /\ UNCHANGED <<wsOk, wsFiles, before>>
    /\ UNCHANGED detectOthers

----------------------------------------------------------------------------
\* The program.

Next ==
    \/ \E c \in Ops, k \in Keys : mq = <<>> /\ CallRun(c, k)
    \/ \E c \in Ops, k \in Keys : mq = <<>> /\ CallNew(c, k)
    \/ \E c \in Ops, k \in Keys, t \in FileNames : mq = <<>> /\ CallSwitch(c, k, t)
    \/ \E c \in Ops : AcquireResume(c)
    \/ \E c \in Ops : RunAfterLock(c)
    \/ \E c \in Ops : MkdirThrows(c)
    \/ \E c \in Ops, how \in {"alive", "failed"} : Spawn(c, how)
    \/ \E c \in Ops : SpawnThrows(c)
    \/ \E c \in Ops : ProcClose(c)
    \/ \E c \in Ops : ProcError(c)
    \/ \E c \in Ops : Timeout(c)
    \/ \E c \in Ops : RunFinally(c)
    \/ \E c \in Ops : ProcWrite(c)
    \/ \E c \in Ops : NewAfterLock(c)
    \/ \E c \in Ops : NewStat(c)
    \/ \E c \in Ops : NewRename(c)
    \/ \E c \in Ops : NewRenameThrows(c)
    \/ \E c \in Ops : NewReply(c)
    \/ \E c \in Ops : NewReplyThrows(c)
    \/ \E c \in Ops : SwitchStatTarget(c)
    \/ \E c \in Ops : SwitchStatCurrent(c)
    \/ \E c \in Ops : SwitchRename(c)
    \/ \E c \in Ops : SwitchCopy(c)

Spec == Init /\ [][Next]_vars

\* The lock users alone: runs and /new commands, with no session switching
\* (so that no rename of /new can fail).
RunNext ==
    \/ \E c \in Ops, k \in Keys : mq = <<>> /\ CallRun(c, k)
    \/ \E c \in Ops, k \in Keys : mq = <<>> /\ CallNew(c, k)
    \/ \E c \in Ops : AcquireResume(c)
    \/ \E c \in Ops : RunAfterLock(c)
    \/ \E c \in Ops : MkdirThrows(c)
    \/ \E c \in Ops, how \in {"alive", "failed"} : Spawn(c, how)
    \/ \E c \in Ops : SpawnThrows(c)
    \/ \E c \in Ops : ProcClose(c)
    \/ \E c \in Ops : ProcError(c)
    \/ \E c \in Ops : Timeout(c)
    \/ \E c \in Ops : RunFinally(c)
    \/ \E c \in Ops : ProcWrite(c)
    \/ \E c \in Ops : NewAfterLock(c)
    \/ \E c \in Ops : NewStat(c)
    \/ \E c \in Ops : NewRename(c)
    \/ \E c \in Ops : NewReply(c)

RunSpec == Init /\ [][RunNext]_vars

\* What the event loop, the file system and the timers guarantee: a queued
\* continuation runs, a started file operation completes, a failed start is
\* reported, a timer fires.  Nothing makes a caller call or a process exit.
RunFairness ==
    /\ \A c \in Ops : WF_vars(AcquireResume(c))
    /\ \A c \in Ops : WF_vars(RunAfterLock(c))
    /\ \A c \in Ops : WF_vars(MkdirThrows(c) \/ SpawnThrows(c)
                              \/ \E how \in {"alive", "failed"} : Spawn(c, how))
    /\ \A c \in Ops : WF_vars(ProcError(c))
    /\ \A c \in Ops : WF_vars(Timeout(c))
    /\ \A c \in Ops : WF_vars(RunFinally(c))
    /\ \A c \in Ops : WF_vars(NewAfterLock(c))
    /\ \A c \in Ops : WF_vars(NewStat(c))
    /\ \A c \in Ops : WF_vars(NewRename(c))
    /\ \A c \in Ops : WF_vars(NewReply(c))

FairRunSpec == RunSpec /\ RunFairness

\* The lock table under direct users of acquireLock: a call may also come
\* from the job that is running while continuations are still queued, such
\* as the code that follows an invocation of the handle.
LockNext ==
    \/ \E c \in Ops, k \in Keys : mq = <<>> /\ CallLock(c, k)
    \/ \E c \in Ops, k \in Keys : mq # <<>> /\ CallLock(c, k)
    \/ \E c \in Ops : AcquireResume(c)
    \/ \E c \in Ops : LockGranted(c)
    \/ \E c \in Ops : LockRelease(c)
    \/ \E c \in Ops : LockReleaseAgain(c)

LockSpec == Init /\ [][LockNext]_vars


\* One streaming run, its process and the clock.
StreamNext ==
    \/ Tick
    \/ StreamStart
    \/ StreamThrows
    \/ \E how \in {"alive", "failed"} : StreamSpawn(how)
    \/ \E chunk \in Chunks : StdoutData(chunk)
    \/ StderrData
    \/ ActivityInterval
    \/ \E code \in ExitCodes : StreamClose(code)
    \/ StreamError
    \/ StreamTimeout

StreamSpec == Init /\ [][StreamNext]_vars

\* What the clock and the timers guarantee: time passes and a due timer
\* fires.  Nothing makes the process write or exit.
StreamFairness == WF_vars(Tick) /\ WF_vars(StreamTimeout)

FairStreamSpec == StreamSpec /\ StreamFairness


\* Text-message turns: each takes its watermark, runs Pi under the lock and
\* sends the images found beyond the watermark.
TurnNext ==
    \/ \E c \in Ops, k \in Keys : mq = <<>> /\ TurnArrive(c, k)
    \/ \E c \in Ops : TurnMark(c)
    \/ \E c \in Ops : TurnRun(c)
    \/ \E c \in Ops : AcquireResume(c)
    \/ \E c \in Ops : RunAfterLock(c)
    \/ \E c \in Ops : MkdirThrows(c)
    \/ \E c \in Ops, how \in {"alive", "failed"} : Spawn(c, how)
    \/ \E c \in Ops : SpawnThrows(c)
    \/ \E c \in Ops : ProcClose(c)
    \/ \E c \in Ops : ProcError(c)
    \/ \E c \in Ops : Timeout(c)
    \/ \E c \in Ops : RunFinally(c)
    \/ \E c \in Ops : ProcAppend(c)
    \/ \E c \in Ops : TurnExtract(c)
    \/ \E c \in Ops : TurnFailed(c)

TurnSpec == Init /\ [][TurnNext]_vars


\* A transcript file that grows, and calls of extractImagesFromSession on it
\* with every watermark.
ExtractNext ==
    \/ FileCreate
    \/ \E line \in LineKinds : FileAppend(line)
    \/ TakeMark
    \/ \E afterLine \in 0..(MaxLen + 1) : ExtractCall(afterLine)

ExtractSpec == Init /\ [][ExtractNext]_vars


\* Requests of the chats to the rate limiter as time passes.
RateNext ==
    \/ Tick
    \/ \E chatId \in Keys : checkRateLimit(chatId, Cooldown)

RateSpec == Init /\ [][RateNext]_vars

\* Spawns of pi by runPiWithStreaming with every chat, level, list of image
\* paths and prompt.
ArgsNext ==
    \E chatId \in Keys, level \in Levels, options \in OptionValues, prompt \in Prompts :
        SpawnWithArgs(chatId, level, options, prompt)

ArgsSpec == Init /\ [][ArgsNext]_vars

\* A workspace that changes, snapshots of it and detections against them.
DetectNext ==
    \/ \E p \in DPaths, m \in 0..MaxMtime : FsWrite(p, m)
    \/ \E p \in DPaths : FsMkdir(p)
    \/ \E p \in DPaths : FsRemove(p)
    \/ FsRemoveDir
    \/ FsCreateDir
    \/ snapshotWorkspace
    \/ detectNewFiles

DetectSpec == Init /\ [][DetectNext]_vars

----------------------------------------------------------------------------
\* switchSession (sessions.ts) called for one chat, one call after another,
\* with turns of Pi in between.

getDefaultSessionFilename == 0

\* getActiveSessionFilename of the chat.
activeFilename(active) == IF active # NoName THEN active ELSE getDefaultSessionFilename

\* The archive step renames the current file only when it exists and is
\* the default file.
shouldArchive(fs, currentFilename) ==
    fs[currentFilename] # <<>> /\ currentFilename = getDefaultSessionFilename

\* Without the test for the target the copy would be attempted anyway.
targetMissing_ignored(fs, targetFilename) == FALSE

\* stat(targetPath) throws.
targetMissing(fs, targetFilename) == fs[targetFilename] = <<>>

\* switchSession(config, chatId, targetFilename) on files fs with the
\* active-session entry `active`; `stamp` names the archive.
switchSession(fs, active, targetFilename, stamp) ==
    LET currentFilename == activeFilename(active)
        archived == IF shouldArchive(fs, currentFilename)
                    THEN [fs EXCEPT ![stamp] = fs[currentFilename],
                                    ![currentFilename] = <<>>]
                    ELSE fs
    IN  IF currentFilename = targetFilename
        THEN [files |-> fs, active |-> active, outcome |-> "same", renamed |-> FALSE]
        ELSE IF targetMissing(fs, targetFilename)
        THEN [files |-> fs, active |-> active, outcome |-> "not found", renamed |-> FALSE]
        ELSE [files |-> [archived EXCEPT ![getDefaultSessionFilename] = archived[targetFilename]],
              active |-> targetFilename, outcome |-> "switched", renamed |-> archived # fs]

\* A turn of Pi: it appends to the default file, which it creates when
\* absent (--session always names the default path).
PiTurn ==
    /\ wTurns < MaxTurns
    /\ wTurns' = wTurns + 1
    /\ wFiles' = [wFiles EXCEPT ![getDefaultSessionFilename] = Append(@, wTurns + 1)]
    /\ wLast' = NoSwitch
    /\ UNCHANGED <<wActive, wStamp>>
    /\ UNCHANGED swOthers

\* The /new command: archiveSession renames the default file when there is
\* one, clearActiveSession drops the chat's entry.
NewCommand ==
    /\ wStamp <= MaxStamp
    /\ IF wFiles[getDefaultSessionFilename] # <<>>
       THEN /\ wFiles' = [wFiles EXCEPT ![wStamp] = wFiles[getDefaultSessionFilename],
                                        ![getDefaultSessionFilename] = <<>>]
            /\ wStamp' = wStamp + 1
       ELSE UNCHANGED <<wFiles, wStamp>>
    /\ wActive' = NoName
    /\ wLast' = NoSwitch
    /\ UNCHANGED wTurns
    /\ UNCHANGED swOthers

\* The session:load callback with the file name of a button, which may be
\* an old one.
SwitchSession(t) ==
    /\ wStamp <= MaxStamp
    /\ LET r == switchSession(wFiles, wActive, t, wStamp)
       IN  /\ wFiles' = r.files
           /\ wActive' = r.active
           /\ wStamp' = IF r.renamed THEN wStamp + 1 ELSE wStamp
           /\ wLast' = [outcome |-> r.outcome, target |-> t, files |-> wFiles,
                        active |-> wActive]
    /\ UNCHANGED wTurns
    /\ UNCHANGED swOthers

SwNext ==
    \/ PiTurn
    \/ NewCommand
    \/ \E t \in WNames : SwitchSession(t)

SwSpec == Init /\ [][SwNext]_vars

----------------------------------------------------------------------------
\* listSessions and cleanupOldSessions (sessions.ts).

MaxArchives == 1
MaxKeep == 2

\* The session files there can be: <<k, 0>> is telegram-<k>.jsonl and
\* <<k, n>>, n > 0, an archive telegram-<k>-<timestamp>.jsonl of chat k.
CleanChats == {1, 2}
SessionNames == CleanChats \X (0..MaxArchives)
UnknownChat == 0

\* listSessions' chatId of a file: the group of /^telegram-(-?\d+)\.jsonl$/,
\* or "unknown" when the name does not match, as an archive's does not.
listedChatId(f) == IF f[2] = 0 THEN f[1] ELSE UnknownChat

\* The files of the directory listed under chat id g, newest first.
chatSessions(listing, g) == SelectSeq(listing, LAMBDA f : listedChatId(f) = g)

\* cleanupOldSessions(config, keepCount) on this directory; rm fails for
\* the files in `undeletable`, which the catch ignores.
cleanupOldSessions(listing, keepCount, undeletable) ==
    LET toDelete == {f \in SessionNames :
                        \E g \in CleanChats \cup {UnknownChat} :
                            LET list == chatSessions(listing, g)
                            IN  \E i \in (keepCount + 1)..Len(list) : list[i] = f}
        deleted == toDelete \ undeletable
    IN  [files |-> SelectSeq(listing, LAMBDA f : f \notin deleted),
         deletedCount |-> Cardinality(deleted)]

\* A session file is created or written: it is now the newest.
SessionTouch(f) ==
    /\ sessDir' = <<f>> \o SelectSeq(sessDir, LAMBDA g : g # f)
    /\ sessDir' # sessDir
    /\ cLast' = NoCleanup
    /\ UNCHANGED cleanOthers

\* A cleanupOldSessions call.
Cleanup(keepCount, undeletable) ==
    /\ sessDir # <<>>
    /\ LET r == cleanupOldSessions(sessDir, keepCount, undeletable)
       IN  /\ sessDir' = r.files
           /\ cLast' = [keepCount |-> keepCount, files |-> sessDir,
                        deletedCount |-> r.deletedCount]
    /\ UNCHANGED cleanOthers

CleanNext ==
    \/ \E f \in SessionNames : SessionTouch(f)
    \/ \E keepCount \in 0..MaxKeep, undeletable \in SUBSET SessionNames :
          Cleanup(keepCount, undeletable)

CleanSpec == Init /\ [][CleanNext]_vars

----------------------------------------------------------------------------
\* getWorkspace and setWorkspace (workspace.ts).

\* The arguments of /cd: "~", "~/a", "/w", "/h/a", "a", "..".
PathInputs ==
    {[form |-> "tilde", rest |-> <<>>], [form |-> "tilde", rest |-> <<"a">>],
     [form |-> "abs", rest |-> <<"w">>], [form |-> "abs", rest |-> <<"h", "a">>],
     [form |-> "rel", rest |-> <<"a">>], [form |-> "rel", rest |-> <<"..">>]}

\* path.resolve on an absolute path followed by a relative one: ".." drops
\* the name before it.
RECURSIVE pathResolve(_, _)
pathResolve(from, to) ==
    IF to = <<>> THEN from
    ELSE IF Head(to) = ".."
         THEN pathResolve(IF from = <<>> THEN <<>> ELSE SubSeq(from, 1, Len(from) - 1), Tail(to))
         ELSE pathResolve(Append(from, Head(to)), Tail(to))

\* stat of a path: the root and the home directory are directories.
statKind(kinds, p) ==
    IF p = <<>> \/ p = homedir THEN "dir"
    ELSE IF p \in DOMAIN kinds THEN kinds[p] ELSE "none"

\* loadState: the first call reads workspaces.json; {} when it is absent.
loadState(loaded, st, file) == IF loaded THEN st ELSE file

\* getWorkspace(chatId) once the state is loaded.
getWorkspace(st, kinds, chatId) ==
    IF st[chatId] # NoPath /\ statKind(kinds, st[chatId]) = "dir"
    THEN st[chatId] ELSE homedir

\* The state after a successful call, with every chat moved.
assign_all(st, chatId, resolved) == [k \in Keys |-> resolved]

\* state[String(chatId)] = resolved.
assign(st, chatId, resolved) == [st EXCEPT ![chatId] = resolved]

\* The assignment made before the directory is verified.
stateAtThrow_assigned(st, chatId, resolved) == assign(st, chatId, resolved)

\* Both errors are thrown before the assignment to state.
stateAtThrow(st, chatId, resolved) == st

\* setWorkspace(chatId, path) once the state is loaded: the resolved path,
\* how the call ends, the state it leaves and whether it saves it.
setWorkspace(st, kinds, chatId, path) ==
    LET resolved ==
            IF path.form = "tilde" THEN homedir \o path.rest
            ELSE IF path.form = "abs" THEN path.rest
            ELSE pathResolve(getWorkspace(st, kinds, chatId), path.rest)
        found == statKind(kinds, resolved)
    IN  IF found = "none"
        THEN [resolved |-> resolved, outcome |-> "Directory not found",
              state |-> stateAtThrow(st, chatId, resolved), saved |-> FALSE]
        ELSE IF found # "dir"
        THEN [resolved |-> resolved, outcome |-> "Not a directory",
              state |-> stateAtThrow(st, chatId, resolved), saved |-> FALSE]
        ELSE [resolved |-> resolved, outcome |-> "returned",
              state |-> assign(st, chatId, resolved), saved |-> TRUE]

\* Something else creates, replaces or removes what is at a path.
WsChange(p, k) ==
    /\ wkKind[p] # k
    /\ wkKind' = [wkKind EXCEPT ![p] = k]
    /\ wkLast' = NoCall
    /\ UNCHANGED <<wkState, wkLoaded, wkFile, wkFileExists>>
    /\ UNCHANGED workOthers

\* The bot is started again: the module's variables are new.
WsRestart ==
    /\ wkLoaded
    /\ wkLoaded' = FALSE /\ wkState' = NoState
    /\ wkLast' = NoCall
    /\ UNCHANGED <<wkFile, wkFileExists, wkKind>>
    /\ UNCHANGED workOthers

\* A getWorkspace call.
GetWorkspace(chatId) ==
    /\ wkState' = loadState(wkLoaded, wkState, wkFile)
    /\ wkLoaded' = TRUE
    /\ wkLast' = [op |-> "get", chatId |-> chatId,
                  result |-> getWorkspace(wkState', wkKind, chatId)]
    /\ UNCHANGED <<wkFile, wkFileExists, wkKind>>
    /\ UNCHANGED workOthers

\* A setWorkspace call; saveState writes the whole state.
SetWorkspace(chatId, path) ==
    LET st == loadState(wkLoaded, wkState, wkFile)
        r == setWorkspace(st, wkKind, chatId, path)
    IN  /\ wkState' = r.state
        /\ wkLoaded' = TRUE
        /\ IF r.saved
           THEN wkFile' = r.state /\ wkFileExists' = TRUE
           ELSE UNCHANGED <<wkFile, wkFileExists>>
        /\ wkLast' = [op |-> "set", chatId |-> chatId, path |-> path,
                      resolved |-> r.resolved, outcome |-> r.outcome]
        /\ UNCHANGED wkKind
        /\ UNCHANGED workOthers

WorkNext ==
    \/ \E p \in WsPaths, k \in {"dir", "file", "none"} : WsChange(p, k)
    \/ WsRestart
    \/ \E chatId \in Keys : GetWorkspace(chatId)
    \/ \E chatId \in Keys, path \in PathInputs : SetWorkspace(chatId, path)

WorkSpec == Init /\ [][WorkNext]_vars

----------------------------------------------------------------------------
\* splitMessage (bot.ts), with Telegram's limit scaled down.

MAX_MESSAGE_LENGTH == 4
MaxText == 9

\* Characters: a letter, a space, a line feed.
TextChars == {"a", " ", "\n"}
WhiteSpace == {" ", "\n"}

\* String.prototype.lastIndexOf(ch, fromIndex): the last 0-based index, at
\* most fromIndex, where ch stands, or -1.
RECURSIVE lastIndexOf(_, _, _)
lastIndexOf(str, ch, fromIndex) ==
    IF fromIndex < 0 THEN -1
    ELSE IF fromIndex < Len(str) /\ str[fromIndex + 1] = ch THEN fromIndex
    ELSE lastIndexOf(str, ch, fromIndex - 1)

\* String.prototype.trimStart.
RECURSIVE trimStart(_)
trimStart(str) ==
    IF str # <<>> /\ Head(str) \in WhiteSpace THEN trimStart(Tail(str)) ELSE str

\* A split point is taken wherever it is found.
rejected_onlyMissing(splitIndex) == splitIndex = -1

\* splitIndex === -1 || splitIndex < MAX_MESSAGE_LENGTH / 2.
rejected(splitIndex) == splitIndex = -1 \/ 2 * splitIndex < MAX_MESSAGE_LENGTH

\* The split index of one pass of the loop.
splitIndexOf(remaining) ==
    LET atNewline == lastIndexOf(remaining, "\n", MAX_MESSAGE_LENGTH)
        atSpace == lastIndexOf(remaining, " ", MAX_MESSAGE_LENGTH)
    IN  IF ~rejected(atNewline) THEN atNewline
        ELSE IF ~rejected(atSpace) THEN atSpace
        ELSE MAX_MESSAGE_LENGTH

\* The while loop, given up after `passes` passes: the chunks pushed, the
\* cuts made (what remained and where it was cut) and whether it ended.
RECURSIVE splitLoop(_, _, _, _)
splitLoop(remaining, chunks, cuts, passes) ==
    IF Len(remaining) = 0 THEN [ended |-> TRUE, chunks |-> chunks, cuts |-> cuts]
    ELSE IF Len(remaining) <= MAX_MESSAGE_LENGTH
    THEN [ended |-> TRUE, chunks |-> Append(chunks, remaining), cuts |-> cuts]
    ELSE IF passes = 0 THEN [ended |-> FALSE, chunks |-> chunks, cuts |-> cuts]
    ELSE LET splitIndex == splitIndexOf(remaining)
         IN  splitLoop(trimStart(SubSeq(remaining, splitIndex + 1, Len(remaining))),
                       Append(chunks, SubSeq(remaining, 1, splitIndex)),
                       Append(cuts, [remaining |-> remaining, splitIndex |-> splitIndex]),
                       passes - 1)

\* splitMessage(text).
splitMessage(text) ==
    IF Len(text) <= MAX_MESSAGE_LENGTH
    THEN [ended |-> TRUE, chunks |-> <<text>>, cuts |-> <<>>]
    ELSE splitLoop(text, <<>>, <<>>, Len(text) + 1)

\* The text of the next reply grows by a character.
TextAppend(ch) ==
    /\ Len(mText) < MaxText
    /\ mText' = Append(mText, ch)
    /\ mSplit' = NoSplit
    /\ UNCHANGED splitOthers

\* A reply is sent: splitMessage(text).
SplitCall ==
    /\ mSplit = NoSplit
    /\ mSplit' = splitMessage(mText)
    /\ UNCHANGED mText
    /\ UNCHANGED splitOthers

SplitNext ==
    \/ \E ch \in TextChars : TextAppend(ch)
    \/ SplitCall

SplitSpec == Init /\ [][SplitNext]_vars

----------------------------------------------------------------------------
\* detectActivity's patterns (pi-runner.ts), on lines spelled out.

MaxPieces == 3

\* The pieces lines are made of.
LinePieces ==
    {<<"R", "e", "a", "d">>,
     <<"R", "E", "A", "D">>,
     <<"i", "n", "g">>,
     <<"R", "u", "n", "n">>,
     <<"W", "r", "i", "t">>,
     <<"W", "r", "o", "t", "e">>,
     <<"C", "r", "e", "a", "t">>,
     <<"e", "d">>,
     <<"E", "x", "e", "c", "u", "t">>,
     <<"S", "e", "a", "r", "c", "h">>,
     <<"L", "o", "o", "k">>,
     <<"F", "i", "n", "d">>,
     <<"T", "h", "i", "n", "k">>,
     <<"A", "n", "a", "l", "y", "z">>,
     <<"P", "r", "o", "c", "e", "s", "s">>,
     <<">">>,
     <<"$">>,
     <<" ">>,
     <<"x">>}

\* The i flag: a letter and its capital are the same.
toLower(ch) ==
    LET capitals == ("A" :> "a" @@ "C" :> "c" @@ "D" :> "d" @@ "E" :> "e" @@ "F" :> "f" @@ "L" :> "l" @@ "P" :> "p" @@ "R" :> "r" @@ "S" :> "s" @@ "T" :> "t" @@ "W" :> "w")
    IN  IF ch \in DOMAIN capitals THEN capitals[ch] ELSE ch

\* String.prototype.trim on a line.
RECURSIVE trim(_)
trim(str) ==
    IF str # <<>> /\ str[Len(str)] \in WhiteSpace THEN trim(SubSeq(str, 1, Len(str) - 1))
    ELSE trimStart(str)

\* Only the first letter of the word is compared.
startsWith_firstLetter(str, word) == str # <<>> /\ toLower(str[1]) = toLower(word[1])

\* ^word under the i flag.
startsWith(str, word) ==
    /\ Len(str) >= Len(word)
    /\ \A i \in 1..Len(word) : toLower(str[i]) = toLower(word[i])

\* ^>\s*\$
startsWithPrompt(str) ==
    /\ str # <<>> /\ str[1] = ">"
    /\ \E i \in 2..Len(str) : str[i] = "$" /\ \A j \in 2..(i - 1) : str[j] \in WhiteSpace

\* The five patterns in the order they are tried: the words of the group,
\* whether \s+ follows the group, whether the prompt is an alternative.
ActivityRules ==
    <<[type |-> "reading", words |-> {<<"R", "e", "a", "d", "i", "n", "g">>, <<"R", "e", "a", "d">>}, space |-> TRUE, prompt |-> FALSE],
      [type |-> "writing", words |-> {<<"W", "r", "i", "t", "i", "n", "g">>, <<"W", "r", "o", "t", "e">>, <<"C", "r", "e", "a", "t", "i", "n", "g">>, <<"C", "r", "e", "a", "t", "e", "d">>}, space |-> TRUE, prompt |-> FALSE],
      [type |-> "running", words |-> {<<"R", "u", "n", "n", "i", "n", "g">>, <<"E", "x", "e", "c", "u", "t", "i", "n", "g">>}, space |-> FALSE, prompt |-> TRUE],
      [type |-> "searching", words |-> {<<"S", "e", "a", "r", "c", "h", "i", "n", "g">>, <<"S", "e", "a", "r", "c", "h">>, <<"L", "o", "o", "k", "i", "n", "g">>, <<"F", "i", "n", "d", "i", "n", "g">>}, space |-> FALSE, prompt |-> FALSE],
      [type |-> "thinking", words |-> {<<"T", "h", "i", "n", "k", "i", "n", "g">>, <<"A", "n", "a", "l", "y", "z", "i", "n", "g">>, <<"P", "r", "o", "c", "e", "s", "s", "i", "n", "g">>}, space |-> FALSE, prompt |-> FALSE]>>

\* rule.test(trimmed).
ruleMatches(rule, trimmed) ==
    \/ \E word \in rule.words :
          /\ startsWith(trimmed, word)
          /\ rule.space => (Len(trimmed) > Len(word) /\ trimmed[Len(word) + 1] \in WhiteSpace)
    \/ rule.prompt /\ startsWithPrompt(trimmed)

\* The rules whose test the trimmed line passes.
matching(trimmed) == {r \in 1..5 : ruleMatches(ActivityRules[r], trimmed)}

\* The chain of ifs, tried in this order, on a line that passes the tests
\* `hits`: the type of the first rule that matches, "null" for none.
firstMatch(hits, order) ==
    IF hits = {} THEN "null"
    ELSE ActivityRules[order[CHOOSE i \in 1..5 :
                                /\ order[i] \in hits
                                /\ \A j \in 1..(i - 1) : order[j] \notin hits]].type

\* The type detectActivity returns when it tries the rules in this order;
\* a blank line gives null before any rule is tried.
detectType(line, order) ==
    IF trim(line) = <<>> THEN "null" ELSE firstMatch(matching(trim(line)), order)

\* The characters of a line made of these pieces.
RECURSIVE spell(_)
spell(pieces) == IF pieces = <<>> THEN <<>> ELSE Head(pieces) \o spell(Tail(pieces))

\* The line read from Pi grows by a piece.
LineAppend(piece) ==
    /\ kLast = NoClass
    /\ Len(kLine) < MaxPieces
    /\ kLine' = Append(kLine, piece)
    /\ UNCHANGED kLast
    /\ UNCHANGED classifyOthers

\* detectActivity(line).
DetectActivity ==
    /\ kLast = NoClass
    /\ kLast' = [called |-> TRUE, type |-> detectType(spell(kLine), <<1, 2, 3, 4, 5>>)]
    /\ UNCHANGED kLine
    /\ UNCHANGED classifyOthers

ClassifyNext ==
    \/ \E piece \in LinePieces : LineAppend(piece)
    \/ DetectActivity

ClassifySpec == Init /\ [][ClassifyNext]_vars

\* Calls of categorizeFiles with every list of paths.
CatNext == \E filePaths \in CatLists : Categorize(filePaths)

CatSpec == Init /\ [][CatNext]_vars

\* The start of the program: the probe of pi, then the bot and its updates.
MainNext ==
    \/ \E how \in {"alive", "failed"} : AuthSpawn(how)
    \/ AuthThrows
    \/ AuthError
    \/ \E code \in ExitCodes \cup {SpawnErrno} : AuthClose(code)
    \/ MainExit
    \/ \E allow \in SUBSET Users : MainCreateBot(allow)
    \/ \E from \in Senders, h \in HandlerKinds : MainUpdate(from, h)

MainSpec == Init /\ [][MainNext]_vars

\* A bot built with some allowlist, and the updates it receives.
AccessNext ==
    \/ \E allow \in SUBSET Users : createBot(allow)
    \/ \E from \in Senders, h \in HandlerKinds : Update(from, h)

AccessSpec == Init /\ [][AccessNext]_vars


----------------------------------------------------------------------------
\* Properties.

IsRun(c) == kind[c] = "run"

\* c has acquired the lock and not yet invoked its handle.
Holding(c) ==
    pc[c] \in {"acquired", "mkdir", "running", "resolved",
               "new_stat", "new_rename", "new_reply", "holding"}

\* spawn returned a child process for run c.
Spawned(c) == proc[c] \notin {"none", "threw"}

\* Run c's result is determined and its lock released.
Finished(c) == pc[c] = "done" /\ result[c] # "none" /\ releases[c] >= 1

\* C1: of two runs on the same chat that have both spawned a process, one has
\* its result determined and its lock released: the spawn-to-result windows
\* of two runs on one chat never overlap.
C1_Serialization ==
    \A c, d \in Ops :
        (c # d /\ IsRun(c) /\ IsRun(d) /\ key[c] = key[d] /\ Spawned(c) /\ Spawned(d))
            => (Finished(c) \/ Finished(d))

C1_Witness ==
    \E c, d \in Ops :
        /\ c # d /\ IsRun(c) /\ IsRun(d) /\ key[c] = key[d]
        /\ Finished(c) /\ waited[d] /\ pc[d] = "running"

\* C2: a run that has ended, by a result or by a throw, has invoked its
\* release handle exactly once and its promise is no longer the table's
\* entry; a run that has not ended has not invoked it.
C2_ReleasedOnce ==
    \A c \in Ops :
        IsRun(c) =>
            /\ pc[c] = "done" => (releases[c] = 1 /\ locks[key[c]] # c)
            /\ pc[c] # "done" => releases[c] = 0

C2_Witness ==
    \E c, d \in Ops :
        /\ c # d /\ IsRun(c) /\ IsRun(d) /\ key[c] = key[d]
        /\ pc[c] = "done" /\ outcome[c] = "threw" /\ proc[c] = "none"
        /\ Holding(d) /\ locks[key[d]] = d

\* C3: a call waits only on the promise of a holder of its own chat, and a
\* call for a chat with no entry in the table is granted at once.
C3_Independence ==
    /\ [](\A p \in Ops : \A i \in 1..Len(waitq[p]) : key[waitq[p][i]] = key[p])
    /\ [][\A c \in Ops :
            (pc[c] = "idle" /\ pc'[c] # "idle" /\ kind'[c] \in {"run", "new"}
                /\ locks[key'[c]] = 0)
            => pc'[c] = "acquired"]_vars

C3_Witness ==
    \E c, d \in Ops :
        /\ IsRun(c) /\ IsRun(d) /\ key[c] # key[d]
        /\ pc[c] = "running" /\ pc[d] = "running"

\* C4: while an earlier caller of acquireLock(k) is still waiting, no later
\* caller of acquireLock(k) has been granted the lock.
C4_Fifo ==
    \A c, d \in Ops :
        (c < d /\ key[c] = key[d] /\ pc[c] = "waiting")
            => pc[d] \in {"idle", "waiting"}

\* C5: invoking a release handle a second or later time leaves the lock
\* table unchanged.
C5_Idempotent ==
    [][\A c \in Ops :
        (releases[c] >= 1 /\ releases'[c] > releases[c]) => locks' = locks]_vars

\* C6: per chat, at most one spawned process has not closed yet.
C6_OneProcess ==
    \A c, d \in Ops :
        (c # d /\ IsRun(c) /\ IsRun(d) /\ key[c] = key[d])
            => ~(proc[c] \in {"alive", "termed"} /\ proc[d] \in {"alive", "termed"})

\* C7: while a run holds the lock of a chat, no step of a handler (a step
\* that moves some call) changes that chat's transcript file.
C7_TranscriptOwned ==
    [][\A c \in Ops :
        (IsRun(c) /\ Holding(c) /\ pc' # pc)
            => files'[getSessionPath(key[c])] = files[getSessionPath(key[c])]]_vars

\* C8: the result a run returns is the one of the first of close, error and
\* timeout to occur; a later event changes no determined result, and a call
\* that has ended stays ended with the same outcome.
C8_FirstWins ==
    /\ [](\A c \in Ops : (IsRun(c) /\ outcome[c] = "returned") => result[c] = firstEv[c])
    /\ [][\A c \in Ops : result[c] # "none" => result'[c] = result[c]]_vars
    /\ [][\A c \in Ops : outcome[c] # "none" =>
            (outcome'[c] = outcome[c] /\ pc'[c] = "done")]_vars

C8_Witness ==
    \E c \in Ops :
        /\ IsRun(c) /\ outcome[c] = "returned"
        /\ result[c] = "close" /\ timer[c] = "fired"

\* C9 as stated: a run that has ended has returned a RunResult (it never
\* ends by throwing).
C9_NeverThrows ==
    \A c \in Ops : (IsRun(c) /\ pc[c] = "done") => outcome[c] = "returned"

\* C9 amended: every run eventually ends; it ends by returning the result
\* that was determined, or by throwing what mkdir or spawn threw before any
\* process existed.
C9_Terminates ==
    /\ \A c \in Ops : IsRun(c) ~> (pc[c] = "done")
    /\ [](\A c \in Ops : (IsRun(c) /\ pc[c] = "done") =>
            \/ outcome[c] = "returned" /\ result[c] # "none"
            \/ outcome[c] = "threw" /\ ~Spawned(c) /\ result[c] = "none")

C9_Witness ==
    \E c, d \in Ops :
        /\ c # d /\ IsRun(c) /\ IsRun(d) /\ key[c] = key[d]
        /\ proc[c] = "termed" /\ waited[d]
        /\ pc[d] = "done" /\ outcome[d] = "returned"

\* C10 as stated: where the process of a timed-out run has still not exited,
\* a run of the same chat that had to wait and has ended has spawned its
\* process.
C10_WaiterSpawns ==
    \A h, c \in Ops :
        (h # c /\ IsRun(h) /\ IsRun(c) /\ key[h] = key[c]
            /\ result[h] = "timeout" /\ proc[h] = "termed"
            /\ waited[c] /\ pc[c] = "done")
        => Spawned(c)

\* C10 amended: a waiting run is eventually granted the lock and spawns its
\* process, unless its mkdir or its spawn throws.
C10_WaiterProceeds ==
    \A c \in Ops :
        (IsRun(c) /\ pc[c] = "waiting") ~> (Spawned(c) \/ outcome[c] = "threw")

C10_Witness ==
    \E c, d \in Ops :
        /\ c # d /\ IsRun(c) /\ IsRun(d) /\ key[c] = key[d]
        /\ result[c] = "timeout" /\ proc[c] = "termed"
        /\ waited[d] /\ Spawned(d)

----------------------------------------------------------------------------
\* Properties of one streaming run.

RECURSIVE Flatten(_)
Flatten(chunks) == IF chunks = <<>> THEN <<>> ELSE Head(chunks) \o Flatten(Tail(chunks))

TimeoutError == <<"Timeout: Pi took too long">>

\* C11: when the timeout callback fires before any close or error event, the
\* process is sent SIGTERM and the run returns at once, the process not yet
\* closed, with the stdout captured so far as output and the timeout text as
\* error; a timeout result is never produced before piTimeoutMs has elapsed
\* since the spawn.
C11_TimeoutResult ==
    /\ [](resolvedBy = "timeout" => now >= timeoutDue)
    /\ [][(stimer = "pending" /\ stimer' = "fired" /\ sresult = NoResult)
            => /\ sresult' = [output |-> stdout, error |-> TimeoutError]
               /\ sphase' = "returned"
               /\ sproc = "alive" => sproc' = "termed"]_vars

C11_Witness ==
    /\ resolvedBy = "timeout" /\ sphase = "returned"
    /\ sproc = "termed" /\ sresult.output # <<>>

\* C12: a result determined by the close event has error = stderr and
\* output = stdout (or "Error occurred") when the code is not 0 and stderr is
\* not empty, and has no error and output = stdout (or "(no output)") in
\* every other case; stdout is the chunks in arrival order.
C12_CloseResult ==
    /\ stdout = Flatten([i \in 1..Len(arrived) |-> toString(arrived[i])])
    /\ resolvedBy = "close" =>
        IF exitCode # 0 /\ stderr # <<>>
        THEN /\ sresult.error = stderr
             /\ sresult.output = (IF stdout = <<>> THEN <<"Error occurred">> ELSE stdout)
        ELSE /\ sresult.error = Absent
             /\ sresult.output = (IF stdout = <<>> THEN <<"(no output)">> ELSE stdout)

C12_Witness ==
    /\ resolvedBy = "close" /\ exitCode = 0 /\ stderr # <<>>
    /\ Len(arrived) >= 2 /\ sresult.error = Absent

\* C13: the result tells the termination reason: a close with a code other
\* than 0 has an error, a close with code 0 has none, and a spawn failure and
\* a timeout carry their own error text.
C13_ReasonVisible ==
    /\ (resolvedBy = "close" /\ exitCode # 0) => sresult.error # Absent
    /\ (resolvedBy = "close" /\ exitCode = 0) => sresult.error = Absent
    /\ resolvedBy = "timeout" => sresult.error = TimeoutError
    /\ resolvedBy = "error" => Head(sresult.error) = "Failed to start Pi: "

C15_ResultLast ==
    [][sresult # NoResult => emitted' = emitted]_vars

\* C16: each ActivityUpdate passed to onActivity carries an elapsed value at
\* least that of the one before it.
C16_ElapsedMonotone ==
    [][emitted' > emitted => lastEmit'.elapsed >= lastEmit.elapsed]_vars

C16_Witness ==
    /\ emitted >= 2 /\ lastEmit.type = "working"
    /\ lastActivity # NoActivity /\ lastEmit.elapsed > lastActivity.elapsed

----------------------------------------------------------------------------
\* Properties of message turns.

\* C17: every image a turn sends is on a transcript line that this turn's
\* own run appended (so no image is sent by two turns, and none from a line
\* written by an earlier or concurrent turn).
C17_OwnImagesOnly ==
    \A c \in Ops : \A i \in sent[c] : transcript[key[c]][i] = c

----------------------------------------------------------------------------
\* Properties of extractImagesFromSession.

\* C18: every image returned is on a line of the file whose 0-based index is
\* at least afterLine, and no image is returned when afterLine is at least
\* the number of lines.
C18_AfterLineOnly ==
    /\ \A i \in 1..Len(xImages) :
        /\ xImages[i] >= xAfter
        /\ xImages[i] < Len(xContent) /\ scanLine(xContent[xImages[i] + 1]).pushed > 0
    /\ xAfter >= Len(xContent) => xImages = <<>>

C18_Witness ==
    /\ xAfter >= 1 /\ Len(xContent) >= 3
    /\ xContent[1] = "blank" /\ xContent[2] = "img" /\ xContent[3] = "img"
    /\ xImages = <<2>>

----------------------------------------------------------------------------
\* Properties of the rate limiter and of access control.

\* C19: two allowed requests of one chat are at least the cooldown apart; a
\* request of a chat with no entry is allowed, and so is a request made the
\* cooldown or more after the last allowed one.
C19_Cooldown ==
    /\ [](\A k \in Keys : \A i, j \in 1..Len(allowedAt[k]) :
            i < j => allowedAt[k][j] - allowedAt[k][i] >= Cooldown)
    /\ [][\A k \in Keys :
            (rlast' # rlast /\ rlast'.chatId = k
                /\ (rateLimits[k] = NoEntry \/ now - rateLimits[k] >= Cooldown))
            => rlast'.allowed]_vars

C19_Witness ==
    \E k \in Keys :
        /\ Len(allowedAt[k]) >= 2
        /\ allowedAt[k][2] - allowedAt[k][1] = Cooldown
        /\ rlast.chatId = k /\ ~rlast.allowed /\ rlast.retryAfterMs = 1

\* C20: with a non-empty allowlist only updates whose sender is in it reach
\* a handler; with an empty allowlist no update is turned away.
C20_AccessControl ==
    /\ allowedUsers # {} => \A u \in reached : u # NoSender /\ u \in allowedUsers
    /\ allowedUsers = {} => denied = {}

C20_Witness ==
    /\ allowedUsers # {} /\ reached # {}
    /\ NoSender \in denied
    /\ \E u \in denied : u # NoSender /\ u # 0 /\ u \notin allowedUsers

----------------------------------------------------------------------------
\* Further properties of the lock table and of /new.

\* The callers that have acquired chat k's lock and not yet released it.
Holders(k) == {c \in Ops : Holding(c) /\ key[c] = k}

\* C25: the table has an entry for chat k exactly when one caller holds k,
\* the entry being that caller's promise, and never do two callers hold k;
\* with no run and no /new in flight the table is empty.
C25_LockTable ==
    /\ \A k \in Keys :
        /\ Cardinality(Holders(k)) <= 1
        /\ locks[k] # 0 <=> Holders(k) # {}
        /\ locks[k] # 0 => Holders(k) = {locks[k]}
    /\ (\A c \in Ops : pc[c] \in {"idle", "done"}) => \A k \in Keys : locks[k] = 0

C25_Witness ==
    /\ \E c, d \in Ops : c # d /\ outcome[c] = "returned" /\ outcome[d] = "threw"
    /\ \A c \in Ops : c <= NOps => pc[c] = "done"
    /\ \A k \in Keys : locks[k] = 0

\* C28: the rename of /new happens only while /new holds the chat's lock and
\* no run of that chat is between acquisition and release; a /new that
\* arrives while a run holds the lock waits; a /new that has ended, by a
\* reply or by a throw, has released the lock once.
C28_NewUnderLock ==
    /\ [][\A c \in Ops :
            (kind[c] = "new" /\ pc[c] = "new_rename" /\ pc'[c] = "new_reply")
            => /\ locks[key[c]] = c
               /\ ~\E d \in Ops : IsRun(d) /\ key[d] = key[c] /\ Holding(d)]_vars
    /\ [][\A c \in Ops :
            (pc[c] = "idle" /\ kind'[c] = "new"
                /\ \E d \in Ops : IsRun(d) /\ key[d] = key'[c] /\ Holding(d))
            => pc'[c] = "waiting"]_vars
    /\ [](\A c \in Ops : (kind[c] = "new" /\ pc[c] = "done")
            => (releases[c] = 1 /\ locks[key[c]] # c))

C28_Witness ==
    \E c, d \in Ops :
        /\ kind[c] = "new" /\ IsRun(d) /\ key[c] = key[d]
        /\ waited[c] /\ pc[c] = "done" /\ releases[c] = 1
        /\ outcome[c] = "threw" /\ outcome[d] = "returned"
        /\ \E n \in 2..(NOps + 1) : files[ArchiveName(key[c], n)] # 0

\* C26: after a run resolved by the close or the error event its timeout
\* timer is no longer pending, and the timeout callback does not run (and
\* so sends no SIGTERM) once the result is returned.
C26_CleanupComplete ==
    /\ [](resolvedBy \in {"close", "error"} => stimer # "pending")
    /\ [][(resolvedBy \in {"close", "error"}) => stimer' = stimer]_vars

\* The bytes the process wrote to stdout, decoded as one text.
WholeText == toString(Flatten(arrived))

\* The lines of a text: the pieces that end with a newline, then what
\* follows the last newline when it is not empty.
LinesOf(text) ==
    LET pieces == Split(text)
        last == pieces[Len(pieces)]
    IN  SubSeq(pieces, 1, Len(pieces) - 1) \o (IF last # <<>> THEN <<last>> ELSE <<>>)

\* C29: when the run is resolved by the close event, the lines handed to
\* processLine are those of the whole stdout text split on newline, the same
\* for every cut of that text into chunks: each complete line once and in
\* order, then the trailing partial line when it is not empty.
C29_ChunkIndependent ==
    resolvedBy = "close" => handed = LinesOf(WholeText)

\* C30: a tick of the activity interval comes only before the result is
\* determined; it emits {working, "", elapsed} exactly when nothing was
\* classified yet or the last classified activity is more than QuietS whole
\* seconds old, and it never changes lastActivity; a "working" update is
\* emitted by nothing else, so none follows close, spawn error or timeout.
C30_SyntheticTick ==
    /\ [][(activityInterval = "active" /\ intervalDue' # intervalDue)
            => /\ sresult = NoResult
               /\ lastActivity' = lastActivity
               /\ IF lastActivity = NoActivity \/ Elapsed - lastActivity.elapsed > QuietS
                  THEN /\ emitted' = emitted + 1
                       /\ lastEmit' = [type |-> "working", detail |-> "", elapsed |-> Elapsed]
                  ELSE emitted' = emitted /\ lastEmit' = lastEmit]_vars
    /\ [][(emitted' > emitted /\ lastEmit'.type = "working")
            => (sresult = NoResult /\ activityInterval = "active"
                    /\ intervalDue' # intervalDue)]_vars
    /\ [](sresult # NoResult => activityInterval # "active")

C30_Witness ==
    /\ sresult = NoResult /\ lastEmit.type = "working" /\ emitted >= 3
    /\ lastActivity # NoActivity
    /\ lastEmit.elapsed - lastActivity.elapsed > QuietS

\* C27: when getSessionLineCount was taken, lines were appended and
\* extractImagesFromSession was then called with that count as afterLine,
\* the result has the image of every line appended since the count.
C27_NoAppendedSkipped ==
    (xMark # NoMark /\ xAfter = xMark) =>
        \A i \in xMarkLen..(Len(xContent) - 1) :
            xContent[i + 1] = "img" => \E j \in 1..Len(xImages) : xImages[j] = i

\* C21: the spawned argument list is "--session", the chat's transcript
\* path, "--print", "--thinking", the level, then "@" and the path for each
\* image path in the given order, then the prompt as the last argument.
C21_ArgList ==
    args # <<>> =>
        /\ Len(args) = 5 + Len(aOptions.imagePaths) + 1
        /\ args[1] = <<"--session">>
        /\ args[2] = <<"sessionDir/", "telegram-", ToString(aChat), ".jsonl">>
        /\ args[3] = <<"--print">>
        /\ args[4] = <<"--thinking">>
        /\ args[5] = <<aLevel>>
        /\ \A i \in 1..Len(aOptions.imagePaths) :
                /\ Head(args[5 + i]) = "@"
                /\ Tail(args[5 + i]) = aOptions.imagePaths[i]
        /\ args[Len(args)] = aPrompt

C21_Witness ==
    /\ Len(args) = 8 /\ aPrompt = <<"--print">>
    /\ args[6] = <<"@", "/tmp/b.png">> /\ args[7] = <<"@", "/tmp/a.jpg">>
    /\ args[8] = <<"--print">>

\* C22: checkPiAuth resolves true exactly when the close event of
\* `pi --version` comes with code 0; it resolves false on any other code and
\* on a spawn error, whose later close event changes nothing.
C22_AuthResult ==
    /\ [](authResult = "true" <=> authCode = 0)
    /\ []((authCode # NoCode /\ authCode # 0) => authResult = "false")
    /\ [](authProc = "errored" => (authResult = "false" /\ authBy = "error"))
    /\ [](authBy = "close" => authCode # NoCode)
    /\ [][authResult # "pending" => authResult' = authResult]_vars

C22_Witness ==
    /\ authResult = "true" /\ authBy = "close" /\ authCode = 0
    /\ created /\ lastUpdate.ended = "handler"

\* The extension of a path, in lower case and without its dot ("": none).
LowerExtension(p) ==
    IF Len(p.base) <= 1 \/ (Len(p.base) = 2 /\ p.base[1] = "") THEN ""
    ELSE toLowerCase(p.base[Len(p.base)])

PhotoSet == {"png", "jpg", "jpeg", "gif", "webp"}
DocumentSet == {"pdf", "txt", "md", "json", "csv", "html", "xml", "yaml", "yml"}

\* The positions of the input whose path is of a known type, in input order.
KeptPositions(paths) ==
    SelectSeq([i \in 1..Len(paths) |-> i],
              LAMBDA i : LowerExtension(paths[i]) \in PhotoSet \cup DocumentSet)

\* C23: categorizeFiles returns exactly the paths whose extension, compared
\* without regard to case, is in the photo set (tagged photo) or in the
\* document set (tagged document), in input order; every other path is
\* dropped.
C23_Categorize ==
    LET kept == KeptPositions(cIn)
    IN  /\ Len(cOut) = Len(kept)
        /\ \A j \in 1..Len(kept) :
            /\ cOut[j].path = cIn[kept[j]]
            /\ cOut[j].type = IF LowerExtension(cIn[kept[j]]) \in PhotoSet
                              THEN "photo" ELSE "document"

C23_Witness ==
    /\ Len(cIn) = 2 /\ cIn[1].base = <<"d", "exe">> /\ cIn[2].base = <<"a", "PNG">>
    /\ Len(cOut) = 1 /\ cOut[1].type = "photo" /\ cOut[1].path = cIn[2]

\* C24: detectNewFiles returns exactly the regular files in the directory
\* at the call whose path the snapshot lacks or whose mtime is greater than
\* the snapshot's: not a file with the snapshot's mtime, not a file deleted
\* since, not a subdirectory; nothing when the directory is missing.
C24_DetectNew ==
    dLast.called =>
        /\ \A p \in DPaths :
            p \in dLast.new <=>
                /\ dLast.ok /\ dLast.files[p].kind = "file"
                /\ \/ dLast.before[p] = NoMtime
                   \/ dLast.files[p].mtime > dLast.before[p]
        /\ ~dLast.ok => dLast.new = {}

C24_Witness ==
    /\ dLast.called /\ dLast.ok /\ dLast.new = {"/w/a"}
    /\ dLast.before["/w/a"] # NoMtime /\ dLast.files["/w/a"].mtime > dLast.before["/w/a"]
    /\ dLast.files["/w/b"].kind = "file"
    /\ dLast.files["/w/b"].mtime = dLast.before["/w/b"]

\* C31: the timeout is due piTimeoutMs after the spawn and nothing moves it
\* afterwards, neither stdout or stderr data nor an activity update; its
\* callback runs only when it is due, and a process still alive then is sent
\* SIGTERM, whatever it has written (within the modelled time).
C31_FixedDeadline ==
    /\ [][(sphase = "mkdir" /\ sphase' = "spawned")
            => (timeoutDue' = now + PiTimeoutS /\ stimer' = "pending")]_vars
    /\ [][stimer # "none" => timeoutDue' = timeoutDue]_vars
    /\ [][(stimer = "pending" /\ stimer' = "fired")
            => (now >= timeoutDue /\ (sproc = "alive" => sproc' = "termed"))]_vars
    /\ (stimer = "pending" /\ timeoutDue <= MaxTime) ~> (stimer = "fired" /\ sproc # "alive")

C31_Witness ==
    /\ stimer = "fired" /\ resolvedBy = "timeout" /\ sproc = "termed"
    /\ now = timeoutDue
    /\ Len(arrived) >= 2 /\ stderr # <<>> /\ emitted >= 2

\* The 0-based lines of the last call's file, from afterLine on, whose kind
\* is in `kinds`, in file order.
LinesFrom(kinds) ==
    SelectSeq([i \in 1..Len(xContent) |-> i - 1],
              LAMBDA i : i - LeadingBlanks(xContent) >= xAfter /\ xContent[i + 1] \in kinds)

\* C32 as stated: the call never throws, and what it returns is the images
\* of the well-formed image records from afterLine on, in line order: a
\* line that is not JSON or whose record has an unexpected shape gives
\* nothing.
C32_BadLinesSkipped ==
    xOutcome # "none" => (xOutcome = "returned" /\ xImages = LinesFrom({"img"}))

\* C32, amended: the call never throws and scanning continues after every
\* line; a record with a malformed content item still gives the images that
\* come before that item, every other unexpected line gives nothing.
C32_ScanContinues ==
    xOutcome # "none" => (xOutcome = "returned" /\ xImages = LinesFrom({"img", "partial"}))

C32_Witness ==
    /\ xOutcome = "returned" /\ xAfter = 0
    /\ xContent = <<"bad", "partial", "img">> /\ xImages = <<1, 2>>

\* seq1 is the beginning of seq2.
IsPrefix(seq1, seq2) ==
    Len(seq1) <= Len(seq2) /\ \A i \in 1..Len(seq1) : seq1[i] = seq2[i]

\* C33: what the default file held before a switch is still in some file
\* after it, also when the active session was not the default one.
C33_NothingDestroyed ==
    wLast.outcome = "switched" =>
        \E f \in WNames : IsPrefix(wLast.files[getDefaultSessionFilename], wFiles[f])

\* C35 as stated: a call whose target file does not exist throws "Session
\* not found" and changes nothing, and a call for the active session
\* renames and copies nothing.
C35_MissingTargetThrows ==
    wLast.outcome # "none" =>
        /\ wLast.files[wLast.target] = <<>> =>
              (wLast.outcome = "not found" /\ wFiles = wLast.files /\ wActive = wLast.active)
        /\ wLast.target = activeFilename(wLast.active) => wFiles = wLast.files

\* C35, amended: the test for the active session comes first.  A call for
\* the active session returns and changes nothing, whether its file exists
\* or not; any other call whose target file does not exist throws "Session
\* not found" and changes nothing; every other call switches.
C35_SameFirstThenMissing ==
    wLast.outcome # "none" =>
        LET same == wLast.target = activeFilename(wLast.active)
            missing == wLast.files[wLast.target] = <<>>
        IN  /\ wLast.outcome = (IF same THEN "same"
                                ELSE IF missing THEN "not found" ELSE "switched")
            /\ (same \/ missing) => (wFiles = wLast.files /\ wActive = wLast.active)

C35_Witness ==
    /\ wLast.outcome = "not found" /\ wLast.active # NoName
    /\ wLast.files[wLast.target] = <<>> /\ wFiles = wLast.files
    /\ \E f \in WNames : f > 1 /\ wFiles[f] # <<>>

\* The files of a listing.
FilesOf(listing) == {listing[i] : i \in 1..Len(listing)}

\* C34: a cleanup deletes a file only if at least keepCount newer session
\* files of the same chat, its current file and its archives, remain, and
\* it returns the number of files it deleted.
C34_KeepsPerChat ==
    cLast.keepCount >= 0 =>
        /\ \A i \in 1..Len(cLast.files) :
              cLast.files[i] \notin FilesOf(sessDir) =>
                  Cardinality({j \in 1..(i - 1) :
                                  /\ cLast.files[j][1] = cLast.files[i][1]
                                  /\ cLast.files[j] \in FilesOf(sessDir)}) >= cLast.keepCount
        /\ cLast.deletedCount = Len(cLast.files) - Len(sessDir)

\* C36: a call for chat c changes the limiter's state for c only, and only
\* when it allows the request; a refused call leaves c's time stamp alone
\* and reports the cooldown less the time since c's last allowed request;
\* the decision depends on c's own entry only.
C36_PerChatState ==
    /\ [](\A k \in Keys : (rateLimits[k] = NoEntry) = (allowedAt[k] = <<>>))
    /\ [](\A k \in Keys : allowedAt[k] # <<>> => rateLimits[k] = allowedAt[k][Len(allowedAt[k])])
    /\ [][rlast' # rlast =>
            LET k == rlast'.chatId
                due == rateLimits[k] = NoEntry \/ now - rateLimits[k] >= Cooldown
            IN  /\ \A j \in Keys \ {k} : rateLimits'[j] = rateLimits[j]
                /\ rlast'.allowed = due
                /\ rlast'.allowed => rateLimits'[k] = now
                /\ ~rlast'.allowed =>
                      /\ rateLimits' = rateLimits /\ allowedAt' = allowedAt
                      /\ rlast'.retryAfterMs = Cooldown - (now - allowedAt[k][Len(allowedAt[k])])
                      /\ rlast'.retryAfterMs \in 1..Cooldown]_vars

C36_Witness ==
    \E k, j \in Keys :
        /\ k # j /\ rlast.chatId = k /\ ~rlast.allowed /\ rlast.at = now
        /\ rateLimits[j] # NoEntry /\ rateLimits[j] < rateLimits[k]
        /\ now - rateLimits[j] >= Cooldown
        /\ rlast.retryAfterMs = Cooldown - (now - rateLimits[k])

\* The chats' workspaces as the next call will find them.
StoredWorkspaces == loadState(wkLoaded, wkState, wkFile)

\* What getWorkspace answers for each chat in this state.
Answers == [k \in Keys |-> getWorkspace(StoredWorkspaces, wkKind, k)]

\* C37: a setWorkspace call that fails with "Directory not found" or "Not a
\* directory" leaves every chat's stored workspace as it was, writes
\* nothing to the state file, and getWorkspace answers as before.
C37_FailedSetChangesNothing ==
    [][(wkLast' # wkLast /\ wkLast'.op = "set" /\ wkLast'.outcome # "returned") =>
            /\ wkLast'.outcome =
                  (IF statKind(wkKind, wkLast'.resolved) = "none"
                   THEN "Directory not found" ELSE "Not a directory")
            /\ statKind(wkKind, wkLast'.resolved) # "dir"
            /\ StoredWorkspaces' = StoredWorkspaces
            /\ wkFile' = wkFile /\ wkFileExists' = wkFileExists
            /\ Answers' = Answers]_vars

C37_Witness ==
    /\ wkLast.op = "set" /\ wkLast.outcome = "Not a directory"
    /\ wkLast.path.form = "rel"
    /\ wkFileExists /\ \A k \in Keys : wkFile[k] # NoPath /\ Answers[k] # homedir

\* C38: a successful setWorkspace(c, p) changes chat c's entry only, in
\* memory and in the saved file; getWorkspace(c) answers the resolved p
\* while it is a directory and the home directory when it is not; nothing
\* but a successful setWorkspace changes a stored workspace.
C38_SetChangesOneChat ==
    /\ [][(wkLast' # wkLast /\ wkLast'.op = "set" /\ wkLast'.outcome = "returned") =>
            LET c == wkLast'.chatId
            IN  /\ statKind(wkKind, wkLast'.resolved) = "dir"
                /\ wkState'[c] = wkLast'.resolved /\ wkFile'[c] = wkLast'.resolved
                /\ wkFileExists'
                /\ \A k \in Keys \ {c} :
                      /\ wkState'[k] = StoredWorkspaces[k]
                      /\ wkFile'[k] = wkFile[k]
                      /\ Answers'[k] = Answers[k]]_vars
    /\ [][(StoredWorkspaces' # StoredWorkspaces \/ wkFile' # wkFile) =>
            (wkLast'.op = "set" /\ wkLast'.outcome = "returned")]_vars
    /\ [][(wkLast' # wkLast /\ wkLast'.op = "get") =>
            LET p == StoredWorkspaces[wkLast'.chatId]
            IN  wkLast'.result =
                    (IF p # NoPath /\ statKind(wkKind, p) = "dir" THEN p ELSE homedir)]_vars
    /\ [](wkFileExists => StoredWorkspaces = wkFile)

C38_Witness ==
    /\ wkLast.op = "set" /\ wkLast.outcome = "returned" /\ wkLast.chatId = 1
    /\ wkLast.path.form = "rel" /\ wkLast.resolved = <<"w", "a">>
    /\ wkState[2] = <<"h", "a">> /\ wkFile[2] = <<"h", "a">>
    /\ statKind(wkKind, wkState[2]) # "dir" /\ Answers[2] = homedir

\* The 0-based places, at most the limit, where ch stands in str.
PlacesOf(str, ch) == {i \in 0..MAX_MESSAGE_LENGTH : i < Len(str) /\ str[i + 1] = ch}

\* The greatest number of a non-empty set of numbers.
Greatest(set) == CHOOSE i \in set : \A j \in set : j <= i

\* Where the claim cuts a text longer than the limit: at the last line feed,
\* else the last space, when that place is at or beyond half the limit,
\* and at the limit otherwise.
ClaimedCut(str) ==
    LET half(set) == set # {} /\ 2 * Greatest(set) >= MAX_MESSAGE_LENGTH
    IN  IF half(PlacesOf(str, "\n")) THEN Greatest(PlacesOf(str, "\n"))
        ELSE IF half(PlacesOf(str, " ")) THEN Greatest(PlacesOf(str, " "))
        ELSE MAX_MESSAGE_LENGTH

\* C40: splitMessage ends for every text; no chunk is longer than the
\* limit; a text within the limit comes back as one unchanged chunk; every
\* cut is at the last line feed, else the last space, at or before the
\* limit when that place is at or beyond half the limit, else at the limit.
C40_SplitMessage ==
    mSplit # NoSplit =>
        /\ mSplit.ended
        /\ \A i \in 1..Len(mSplit.chunks) : Len(mSplit.chunks[i]) <= MAX_MESSAGE_LENGTH
        /\ Len(mText) <= MAX_MESSAGE_LENGTH => mSplit.chunks = <<mText>>
        /\ Len(mText) > MAX_MESSAGE_LENGTH => Len(mSplit.cuts) >= 1
        /\ \A i \in 1..Len(mSplit.cuts) :
              /\ mSplit.cuts[i].splitIndex = ClaimedCut(mSplit.cuts[i].remaining)
              /\ mSplit.chunks[i] =
                    SubSeq(mSplit.cuts[i].remaining, 1, mSplit.cuts[i].splitIndex)

C40_Witness ==
    /\ mSplit.ended /\ Len(mSplit.cuts) = 2
    /\ mText = <<"a", "\n", "a", " ", "a", "a", "a", "a", "a">>
    /\ mSplit.chunks = << <<"a", "\n", "a">>, <<"a", "a", "a", "a">>, <<"a">> >>

\* The orders in which the five rules can be tried.
RuleOrders == Permutations(1..5)

\* C39: at most one of the five patterns matches a trimmed line, so the
\* category does not depend on the order of the rules; a blank line and a
\* line that no pattern matches give no event.
C39_RulesExclusive ==
    kLast.called =>
        LET trimmed == trim(spell(kLine))
            hits == matching(trimmed)
        IN  /\ Cardinality(hits) <= 1
            /\ \A order \in RuleOrders :
                  (IF trimmed = <<>> THEN "null" ELSE firstMatch(hits, order)) = kLast.type
            /\ (trimmed = <<>> \/ hits = {}) = (kLast.type = "null")
            /\ \A r \in hits : kLast.type = ActivityRules[r].type

C39_Witness ==
    /\ kLast.called /\ kLast.type = "running"
    /\ kLine = << <<" ">>, <<"R", "u", "n", "n">>, <<"i", "n", "g">> >>

====
